---- MODULE Spec2Model ----
(***************************************************************************)
(* The grading engines of the assignment package:                          *)
(*   scripts/BaseGradingEngine.py   BaseGradingEngine (abstract base)      *)
(*   scripts/calculate_grade.py     PandasAnalysisGrader + main            *)
(*   scripts/calculate_grade_old.py PandasGradingEngine + main             *)
(*   scripts/grade_assignment.py    PandasAnalysisGrader + main            *)
(* and the sample solutions samples/{good,medium}/src/pandas_basics.py.    *)
(*                                                                         *)
(* Representation.                                                         *)
(*  - A Python dict whose iteration order matters (test_results, the       *)
(*    component registry, detailed_breakdown) is a sequence of entries     *)
(*    [k |-> key, v |-> value] in insertion order.  A small dict that is   *)
(*    only read by key (one test result, the report) is a TLA+ function    *)
(*    over its keys; <<>> is the empty dict.                               *)
(*  - Points and scores are Python ints or floats; the model keeps them    *)
(*    as integers counted in thousandths of a point (Milli).               *)
(*  - An unrounded percentage is the exact fraction num/den; a percentage  *)
(*    or rate rounded by round(x, 1) is an integer number of tenths.       *)
(*  - A Python str built from pieces is the sequence of its pieces, so     *)
(*    that string concatenation is \o.                                     *)
(***************************************************************************)
EXTENDS Integers, Sequences, FiniteSets, TLC

VARIABLES
    engine,                 \* which program runs: "base", "pandas", "old", "assign", ...
    submission,             \* the student's submission directory and what its tests do
    test_results,           \* self.test_results
    component_categories,   \* self.component_categories
    grade_report,           \* self.grade_report
    environ,                \* os.environ entries written by the engine
    exit_code,              \* <<>> while the process runs, <<c>> once it has exited
    returned,               \* <<>>, or <<v>>: the value a method last returned to its caller
    pc,                     \* position in the driver / main
    written_files,            \* <<>>, or <<f>>: the file save_grade_report wrote
    console,                \* what display_grade_summary printed, one entry per call
    events                  \* the calls made on the engine instance, each with the
                            \* methods it went through, in order

vars == <<engine, submission, test_results, component_categories,
          grade_report, environ, exit_code, returned, pc, written_files, console, events>>

----------------------------------------------------------------------------
\* Bounds of the model.

\* Tests of one PandasAnalysisGrader run that end abnormally (timeout or
\* launch error) rather than with an exit status.
MaxAbnormal == 1

\* Registry entries of one PandasGradingEngine run whose pytest line is
\* missing from stdout or reports SKIPPED.
MaxIrregular == 1

\* The largest percentage handed to calculate_letter_grade directly; every
\* tenth of a percent from 0 up to it is tried.
MaxPercent == 100

\* The longest function body, in lines, that is drawn line by line.
MaxBody == 2

\* The calls a caller makes on one engine instance.
MaxCalls == 2

\* The rows of a table handed to a sample function.
MaxRows == 2

----------------------------------------------------------------------------
\* Units.

Milli == 10 * 10 * 10

Pts(n) == n * Milli

\* x with one decimal digit d, as a number of tenths.
Tenths(x, d) == 10 * x + d

----------------------------------------------------------------------------
\* Python dicts.

\* dict.get(key, default) on a dict kept as a function.
Get(d, key, default) == IF key \in DOMAIN d THEN d[key] ELSE default

\* Insertion-ordered dicts: sequences of [k, v].
DKeys(d) == [i \in 1..Len(d) |-> d[i].k]

DKeySet(d) == {d[i].k : i \in 1..Len(d)}

DHas(d, key) == \E i \in 1..Len(d) : d[i].k = key

DGet(d, key, default) ==
    IF DHas(d, key)
    THEN d[CHOOSE i \in 1..Len(d) : d[i].k = key].v
    ELSE default

\* d[key] = val: an existing key keeps its position, a new key goes last.
DSet(d, key, val) ==
    IF DHas(d, key)
    THEN [i \in 1..Len(d) |-> IF d[i].k = key THEN [k |-> key, v |-> val] ELSE d[i]]
    ELSE Append(d, [k |-> key, v |-> val])

\* bool(x) of a dict or list: non-empty.
Truthy(d) == DOMAIN d # {}

RECURSIVE SumSeq(_)
SumSeq(s) == IF Len(s) = 0 THEN 0 ELSE Head(s) + SumSeq(Tail(s))

\* sum(1 for x in s if P(x))
CountSeq(s, P(_)) == Cardinality({i \in 1..Len(s) : P(s[i])})

\* sep.join(parts): parts is a sequence of strings, each a sequence of pieces.
RECURSIVE Join(_, _)
Join(sep, parts) ==
    IF Len(parts) = 0 THEN <<>>
    ELSE IF Len(parts) = 1 THEN Head(parts)
    ELSE Head(parts) \o <<sep>> \o Join(sep, Tail(parts))

\* Optional[str]: None, or a str.
None == [none |-> TRUE]

Str(s) == [str |-> s]

\* bool(x) of an Optional[str]: neither None nor "".
TruthyStr(x) == "str" \in DOMAIN x /\ Len(x.str) > 0

----------------------------------------------------------------------------
\* Numbers.

\* (total / possible) * 100, unrounded.
Percentage(total, possible) == [num |-> 100 * total, den |-> possible]

\* percentage >= threshold, for an unrounded percentage.
AtLeast(p, threshold) == p.num >= threshold * p.den

\* RoundTenths that cuts the further digits off.
TruncateTenths(p) == (10 * p.num) \div p.den

\* round(p, 1) as a number of tenths: the nearest tenth, an exact tie going
\* to the even one.
RoundTenths(p) ==
    LET n == 10 * p.num
        q == n \div p.den
        r == n % p.den
    IN  IF 2 * r > p.den THEN q + 1
        ELSE IF 2 * r < p.den THEN q
        ELSE IF q % 2 = 0 THEN q ELSE q + 1

----------------------------------------------------------------------------
\* BaseGradingEngine

GRADE_THRESHOLDS ==
    << [k |-> "A", v |-> 90], [k |-> "B", v |-> 80], [k |-> "C", v |-> 70],
       [k |-> "D", v |-> 60], [k |-> "F", v |-> 0] >>

\* calculate_letter_grade with a strict comparison.
calculate_letter_grade_strict(percentage) ==
    LET hits == {i \in 1..Len(GRADE_THRESHOLDS) :
                    percentage.num > GRADE_THRESHOLDS[i].v * percentage.den}
    IN  IF hits = {} THEN "F"
        ELSE GRADE_THRESHOLDS[CHOOSE i \in hits : \A j \in hits : i <= j].k

\* The first grade, in the dict's order, whose threshold the percentage reaches.
calculate_letter_grade(percentage) ==
    LET hits == {i \in 1..Len(GRADE_THRESHOLDS) :
                    AtLeast(percentage, GRADE_THRESHOLDS[i].v)}
    IN  IF hits = {} THEN "F"
        ELSE GRADE_THRESHOLDS[CHOOSE i \in hits : \A j \in hits : i <= j].k

\* determine_component_status that never consults the detector's verdict.
determine_component_status_undetected(test_result) ==
    IF Get(test_result, "passed", FALSE) THEN "passed" ELSE "implemented_with_errors"

determine_component_status(test_result) ==
    IF Get(test_result, "passed", FALSE) THEN "passed"
    ELSE IF Get(test_result, "implementation_detected", TRUE) THEN "implemented_with_errors"
    ELSE "not_implemented"

generate_component_feedback(component_id, test_result, component_config) ==
    IF Get(test_result, "passed", FALSE)
    THEN <<"Excellent implementation of ", component_config["name"]>>
    ELSE
      LET first ==
            IF ~Get(test_result, "implementation_detected", TRUE)
            THEN << <<component_config["name"], " function not found or not properly defined">>,
                    <<"Implement: ", component_config["description"]>> >>
            ELSE << <<component_config["name"], " implemented but has issues">> >>
                 \o (IF TruthyStr(Get(test_result, "error", None))
                     THEN << <<"Error: ">> \o test_result["error"].str >>
                     ELSE <<>>)
          concepts == Get(component_config, "concepts", <<>>)
          hint ==
            IF Truthy(concepts)
            THEN << <<"Review concepts: ">> \o Join(", ", [i \in 1..Len(concepts) |-> <<concepts[i]>>]) >>
            ELSE <<>>
      IN  Join(" | ", first \o hint)

populate_detailed_breakdown(results, cats) ==
    [i \in 1..Len(cats) |->
        LET component_id == cats[i].k
            component_config == cats[i].v
            test_result == DGet(results, component_id, <<>>)
        IN  [k |-> component_id,
             v |-> [component_name |-> component_config["name"],
                    points_earned |-> Get(test_result, "score", 0),
                    points_possible |-> component_config["points"],
                    status |-> determine_component_status(test_result),
                    concepts_tested |-> Get(component_config, "concepts", <<>>),
                    feedback |-> generate_component_feedback(component_id, test_result,
                                                             component_config)]]]

\* The recommendation of one failing entry of test_results (a list of 0 or 1).
ComponentRecommendation(test_result, component_config) ==
    IF Get(test_result, "passed", FALSE) THEN <<>>
    ELSE IF ~Get(test_result, "implementation_detected", TRUE)
    THEN << <<"Implement ", component_config["name"], ": ", component_config["description"]>> >>
    ELSE LET concepts == Get(component_config, "concepts", <<>>)
         IN  IF Truthy(concepts)
             THEN << <<"Fix ", component_config["name"], " - focus on: ">>
                     \o Join(", ", [i \in 1..(IF Len(concepts) < 3 THEN Len(concepts) ELSE 3)
                                       |-> <<concepts[i]>>]) >>
             ELSE <<>>

RECURSIVE ComponentRecommendations(_, _)
ComponentRecommendations(results, cats) ==
    IF Len(results) = 0 THEN <<>>
    ELSE ComponentRecommendation(Head(results).v, DGet(cats, Head(results).k, <<>>))
         \o ComponentRecommendations(Tail(results), cats)

GeneralRecommendations(pass_rate) ==
    IF pass_rate < Tenths(50, 0)
    THEN << <<"Review assignment instructions and examples carefully">>,
            <<"Test functions individually before running full test suite">> >>
    ELSE IF pass_rate < Tenths(80, 0)
    THEN << <<"Focus on edge cases and error handling in your implementations">> >>
    ELSE <<>>

generate_improvement_recommendations(results, cats, pass_rate) ==
    ComponentRecommendations(results, cats) \o GeneralRecommendations(pass_rate)

----------------------------------------------------------------------------
\* A subclass of BaseGradingEngine that follows the documented contract of the
\* abstract methods: two components of 5 points each, 10 points possible.

GenericCategories ==
    << [k |-> "A", v |-> [name |-> "Component A", points |-> Pts(5),
                          description |-> "does A", concepts |-> <<"a1", "a2">>,
                          professional_skill |-> "skill A"]],
       [k |-> "B", v |-> [name |-> "Component B", points |-> Pts(5),
                          description |-> "does B", concepts |-> <<"b1">>,
                          professional_skill |-> "skill B"]] >>

GenericPossiblePoints == Pts(10)

GenericContext ==
    [skills_assessed |-> <<"s1">>, industry_relevance |-> "r",
     career_preparation |-> "p", next_steps |-> "n"]

\* Scores a component's result may carry.
GenericScores == {0, Pts(1), Pts(2), Pts(4), Pts(5) - 1, Pts(5)}

Absent == [absent |-> TRUE]

\* What run_tests may return for one component: no entry, or a result.
GenericResultChoices ==
    {Absent} \cup
    {[passed |-> p, score |-> sc,
      error |-> IF p THEN None ELSE Str(<<"diag">>),
      implementation_detected |-> d] :
        p \in BOOLEAN, sc \in GenericScores, d \in BOOLEAN}

\* The entries of a choice per key, in the order of keys, without the absent ones.
RECURSIVE Present(_, _)
Present(keys, choice) ==
    IF Len(keys) = 0 THEN <<>>
    ELSE (IF choice[Head(keys)] = Absent THEN <<>>
          ELSE <<[k |-> Head(keys), v |-> choice[Head(keys)]]>>)
         \o Present(Tail(keys), choice)

GenericSubmissions ==
    {[results |-> Present(DKeys(GenericCategories), c)] :
        c \in [DKeySet(GenericCategories) -> GenericResultChoices]}

\* A subclass whose run_tests also reports a component id that its registry
\* does not hold: the results of A and B, then the result of X.
UnregisteredResultChoices ==
    {[passed |-> TRUE, score |-> Pts(5), error |-> None, implementation_detected |-> TRUE],
     [passed |-> FALSE, score |-> 0, error |-> Str(<<"diag">>),
      implementation_detected |-> TRUE]}

UnregisteredSubmissions ==
    {[results |-> Present(DKeys(GenericCategories), c) \o <<[k |-> "X", v |-> x]>>] :
        c \in [DKeySet(GenericCategories) ->
                  {Absent} \cup {r \in UnregisteredResultChoices : TRUE}],
        x \in UnregisteredResultChoices}

----------------------------------------------------------------------------
\* PandasAnalysisGrader (calculate_grade.py)

PandasCategories ==
    << [k |-> "load_and_explore",
        v |-> [name |-> "Load and Explore Data", points |-> Pts(2),
               description |-> "Load CSV data and perform basic exploratory analysis"]],
       [k |-> "filter_data",
        v |-> [name |-> "Filter Environmental Data", points |-> Pts(2),
               description |-> "Filter data using boolean indexing and conditions"]],
       [k |-> "calculate_statistics",
        v |-> [name |-> "Calculate Station Statistics", points |-> Pts(2),
               description |-> "Calculate summary statistics using groupby operations"]],
       [k |-> "join_data",
        v |-> [name |-> "Join Station Data", points |-> Pts(2),
               description |-> "Join datasets using pandas merge functionality"]],
       [k |-> "save_data",
        v |-> [name |-> "Save Processed Data", points |-> Pts(1),
               description |-> "Save processed data to CSV format"]],
       [k |-> "code_quality",
        v |-> [name |-> "Code Quality", points |-> Pts(1),
               description |-> "Clean, readable code with proper structure"]] >>

PandasPossiblePoints == Pts(10)

PandasContext ==
    [title |-> "t", skills_assessed |-> <<"s1">>, industry_relevance |-> "r",
     career_preparation |-> "p"]

\* The component whose assessment runs each test class.
PandasSelectors ==
    << [k |-> "load_and_explore", v |-> "TestLoadAndExploreGISData"],
       [k |-> "filter_data", v |-> "TestFilterEnvironmentalData"],
       [k |-> "calculate_statistics", v |-> "TestCalculateStationStatistics"],
       [k |-> "join_data", v |-> "TestJoinStationData"],
       [k |-> "save_data", v |-> "TestSaveProcessedData"] >>

\* What the external pytest process of one selector does.
ProcessOutcomes ==
    {[kind |-> "exit", returncode |-> rc, stdout |-> <<"out">>, stderr |-> <<"err">>] :
        rc \in {0, 1}}
    \cup {[kind |-> "timeout"], [kind |-> "oserror", message |-> <<"no python">>]}

Abnormal(o) == o.kind # "exit"

PandasSelectorSet == {PandasSelectors[i].v : i \in 1..Len(PandasSelectors)}

PandasSubmissions ==
    {[file_exists |-> fe, proc |-> pr, small |-> sm, has_import |-> im,
      functions_found |-> nf, has_comments |-> co] :
        fe \in BOOLEAN,
        pr \in {f \in [PandasSelectorSet -> ProcessOutcomes] :
                  Cardinality({t \in PandasSelectorSet : Abnormal(f[t])}) <= MaxAbnormal},
        sm \in BOOLEAN, im \in BOOLEAN, nf \in 0..5, co \in BOOLEAN}

\* The submissions, each once: a missing file has no size or content.
PandasSubmissionsCanonical ==
    {s \in PandasSubmissions :
        ~s.file_exists => (s.small /\ ~s.has_import /\ s.functions_found = 0 /\ ~s.has_comments)}

\* What the process of the one selector a direct call of _run_pytest_test
\* names may do: any exit status and output, no end within the timeout, or
\* no launch.
ExitStatuses == {0, 1, 2, 5, -9}

RunnerOutcomes ==
    {[kind |-> "exit", returncode |-> rc, stdout |-> so, stderr |-> se] :
        rc \in ExitStatuses, so \in {<<>>, <<"out">>}, se \in {<<>>, <<"err">>}}
    \cup {[kind |-> "timeout"]}
    \cup {[kind |-> "oserror", message |-> m] :
             m \in {<<"no python">>, <<"no such directory">>}}

RunnerSubmissions ==
    {[test_name |-> t, proc |-> [u \in {t} |-> o]] :
        t \in PandasSelectorSet, o \in RunnerOutcomes}

\* run_pytest_test that reports the captured output whether or not the test passed.
run_pytest_test_keeps_output(sub, test_name) ==
    LET result == sub.proc[test_name]
    IN  IF result.kind = "timeout"
        THEN [passed |-> FALSE, error |-> <<"Test execution timed out">>,
              stdout |-> <<>>, stderr |-> <<>>]
        ELSE IF result.kind = "oserror"
        THEN [passed |-> FALSE, error |-> <<"Test execution error: ">> \o result.message,
              stdout |-> <<>>, stderr |-> <<>>]
        ELSE [passed |-> result.returncode = 0,
              error |-> result.stdout \o result.stderr,
              stdout |-> result.stdout, stderr |-> result.stderr]

\* run_pytest_test whose handlers report a failure without saying why.
run_pytest_test_silent(sub, test_name) ==
    LET result == sub.proc[test_name]
    IN  IF result.kind # "exit"
        THEN [passed |-> FALSE, error |-> <<>>, stdout |-> <<>>, stderr |-> <<>>]
        ELSE LET passed == result.returncode = 0
             IN  [passed |-> passed,
                  error |-> IF ~passed THEN result.stdout \o result.stderr ELSE <<>>,
                  stdout |-> result.stdout, stderr |-> result.stderr]

run_pytest_test(sub, test_name) ==
    LET result == sub.proc[test_name]
    IN  IF result.kind = "timeout"
        THEN [passed |-> FALSE, error |-> <<"Test execution timed out">>,
              stdout |-> <<>>, stderr |-> <<>>]
        ELSE IF result.kind = "oserror"
        THEN [passed |-> FALSE, error |-> <<"Test execution error: ">> \o result.message,
              stdout |-> <<>>, stderr |-> <<>>]
        ELSE LET passed == result.returncode = 0
             IN  [passed |-> passed,
                  error |-> IF ~passed THEN result.stdout \o result.stderr ELSE <<>>,
                  stdout |-> result.stdout, stderr |-> result.stderr]

\* AssessTest that gives one point for a pass, whatever the component is worth.
AssessTestFlatCredit(sub, test_name, max_points, what) ==
    LET result == run_pytest_test(sub, test_name)
    IN  IF result["passed"]
        THEN [score |-> Pts(1), max_points |-> max_points,
              feedback |-> << <<what, " function implemented correctly">> >>]
        ELSE [score |-> 0, max_points |-> max_points,
              feedback |-> << <<what, " test failed: ">> \o result["error"] >>]

\* _assess_filter_data and its three copies: run the test class, full credit
\* on a pass.
AssessTest(sub, test_name, max_points, what) ==
    LET result == run_pytest_test(sub, test_name)
    IN  IF result["passed"]
        THEN [score |-> max_points, max_points |-> max_points,
              feedback |-> << <<what, " function implemented correctly">> >>]
        ELSE [score |-> 0, max_points |-> max_points,
              feedback |-> << <<what, " test failed: ">> \o result["error"] >>]

assess_load_and_explore(sub) ==
    IF ~sub.file_exists
    THEN [score |-> 0, max_points |-> Pts(2),
          feedback |-> << <<"src/pandas_basics.py file not found">> >>]
    ELSE AssessTest(sub, "TestLoadAndExploreGISData", Pts(2), "Load and explore")

assess_filter_data(sub) ==
    AssessTest(sub, "TestFilterEnvironmentalData", Pts(2), "Filter data")

assess_calculate_statistics(sub) ==
    AssessTest(sub, "TestCalculateStationStatistics", Pts(2), "Calculate statistics")

assess_join_data(sub) ==
    AssessTest(sub, "TestJoinStationData", Pts(2), "Join data")

assess_save_data(sub) ==
    AssessTest(sub, "TestSaveProcessedData", Pts(1), "Save data")

\* 0.3, 0.4 and 0.3 of a point.
assess_code_quality(sub) ==
    LET max_points == Pts(1)
    IN  IF ~sub.file_exists
        THEN [score |-> 0, max_points |-> max_points,
              feedback |-> << <<"pandas_basics.py file not found">> >>]
        ELSE IF sub.small
        THEN [score |-> 0, max_points |-> max_points,
              feedback |-> << <<"Implementation appears incomplete (file too small)">> >>]
        ELSE
          LET s1 == IF sub.has_import THEN 3 * (Milli \div 10) ELSE 0
              s2 == IF sub.functions_found >= 4 THEN s1 + 4 * (Milli \div 10) ELSE s1
              s3 == IF sub.has_comments THEN s2 + 3 * (Milli \div 10) ELSE s2
              score == IF s3 < max_points THEN s3 ELSE max_points
          IN  [score |-> score, max_points |-> max_points,
               feedback |-> << <<IF sub.has_import THEN "Pandas import found"
                                 ELSE "Missing pandas import">>,
                               <<IF sub.functions_found >= 4 THEN "Found " ELSE "Only found ",
                                 ToString(sub.functions_found), "/5 required functions">>,
                               <<IF sub.has_comments THEN "Code includes comments/documentation"
                                 ELSE "Code lacks comments/documentation">> >>]

PandasRunTests(sub) ==
    << [k |-> "load_and_explore", v |-> assess_load_and_explore(sub)],
       [k |-> "filter_data", v |-> assess_filter_data(sub)],
       [k |-> "calculate_statistics", v |-> assess_calculate_statistics(sub)],
       [k |-> "join_data", v |-> assess_join_data(sub)],
       [k |-> "save_data", v |-> assess_save_data(sub)],
       [k |-> "code_quality", v |-> assess_code_quality(sub)] >>

----------------------------------------------------------------------------
\* BaseGradingEngine.calculate_grade, over the methods a subclass supplies.

run_tests(eng, sub) ==
    IF eng = "pandas" THEN PandasRunTests(sub) ELSE sub.results

define_component_categories(eng) ==
    IF eng = "pandas" THEN PandasCategories ELSE GenericCategories

total_possible_points(eng) ==
    IF eng = "pandas" THEN PandasPossiblePoints ELSE GenericPossiblePoints

get_professional_context(eng) ==
    IF eng = "pandas" THEN PandasContext ELSE GenericContext

\* round(count / total * 100, 1)
Rate(count, total) == RoundTenths(Percentage(count, total))

\* _generate_improvement_recommendations reads
\* self.component_categories[component_id] for every result that did not
\* pass: KeyError when the id is not in the registry.
RecommendationsRaise(results, cats) ==
    \E i \in 1..Len(results) :
        ~Get(results[i].v, "passed", FALSE) /\ ~DHas(cats, results[i].k)

\* calculate_grade that runs the tests on every call and adds their results
\* to the ones it holds.
calculate_grade_rerunning(eng, sub, results0, cats0) ==
    LET results == results0 \o run_tests(eng, sub)
        cats == IF ~Truthy(cats0) THEN define_component_categories(eng) ELSE cats0
        total_points == SumSeq([i \in 1..Len(results) |-> Get(results[i].v, "score", 0)])
        percentage == Percentage(total_points, total_possible_points(eng))
        letter_grade == calculate_letter_grade(percentage)
        IsPassing(e) == Get(e.v, "passed", FALSE)
        IsImplemented(e) == Get(e.v, "implementation_detected", TRUE)
        components_passing == CountSeq(results, IsPassing)
        components_implemented == CountSeq(results, IsImplemented)
        total_components == Len(cats)
        pass_rate == Rate(components_passing, total_components)
        raised == RecommendationsRaise(results, cats)
    IN  [test_results |-> results,
         component_categories |-> cats,
         grade_report |->
            [assignment |-> eng,
             total_points |-> total_points,
             possible_points |-> total_possible_points(eng),
             percentage |-> RoundTenths(percentage),
             letter_grade |-> letter_grade,
             performance_summary |->
                [components_passing |-> components_passing,
                 total_components |-> total_components,
                 components_implemented |-> components_implemented,
                 implementation_rate |-> Rate(components_implemented, total_components),
                 pass_rate |-> pass_rate],
             professional_context |-> get_professional_context(eng),
             detailed_breakdown |-> populate_detailed_breakdown(results, cats),
             improvement_recommendations |->
                IF raised THEN <<>>
                ELSE generate_improvement_recommendations(results, cats, pass_rate)],
         raised |-> raised,
         trace |-> <<"calculate_grade">>
                   \o <<"run_tests">>
                   \o (IF ~Truthy(cats0) THEN <<"define_component_categories">> ELSE <<>>)
                   \o <<"_populate_detailed_breakdown", "_generate_improvement_recommendations">>
                   \o (IF raised THEN <<"KeyError">>
                       ELSE <<"_validate_report_structure", "return">>)]

\* The engine's fields after calculate_grade, whether the call raised, and the
\* methods the call went through.  The report's timestamp and
\* execution_summary hold clock readings and are left out.  When
\* _generate_improvement_recommendations raises, self.grade_report is left as
\* it is at that point: assigned, the breakdown populated, the
\* recommendations the empty list of the literal.
calculate_grade(eng, sub, results0, cats0) ==
    LET results == IF ~Truthy(results0) THEN run_tests(eng, sub) ELSE results0
        cats == IF ~Truthy(cats0) THEN define_component_categories(eng) ELSE cats0
        total_points == SumSeq([i \in 1..Len(results) |-> Get(results[i].v, "score", 0)])
        percentage == Percentage(total_points, total_possible_points(eng))
        letter_grade == calculate_letter_grade(percentage)
        IsPassing(e) == Get(e.v, "passed", FALSE)
        IsImplemented(e) == Get(e.v, "implementation_detected", TRUE)
        components_passing == CountSeq(results, IsPassing)
        components_implemented == CountSeq(results, IsImplemented)
        total_components == Len(cats)
        pass_rate == Rate(components_passing, total_components)
        raised == RecommendationsRaise(results, cats)
    IN  [test_results |-> results,
         component_categories |-> cats,
         grade_report |->
            [assignment |-> eng,
             total_points |-> total_points,
             possible_points |-> total_possible_points(eng),
             percentage |-> RoundTenths(percentage),
             letter_grade |-> letter_grade,
             performance_summary |->
                [components_passing |-> components_passing,
                 total_components |-> total_components,
                 components_implemented |-> components_implemented,
                 implementation_rate |-> Rate(components_implemented, total_components),
                 pass_rate |-> pass_rate],
             professional_context |-> get_professional_context(eng),
             detailed_breakdown |-> populate_detailed_breakdown(results, cats),
             improvement_recommendations |->
                IF raised THEN <<>>
                ELSE generate_improvement_recommendations(results, cats, pass_rate)],
         raised |-> raised,
         trace |-> <<"calculate_grade">>
                   \o (IF ~Truthy(results0) THEN <<"run_tests">> ELSE <<>>)
                   \o (IF ~Truthy(cats0) THEN <<"define_component_categories">> ELSE <<>>)
                   \o <<"_populate_detailed_breakdown", "_generate_improvement_recommendations">>
                   \o (IF raised THEN <<"KeyError">>
                       ELSE <<"_validate_report_structure", "return">>)]

\* 0 if self.grade_report['percentage'] >= 70 else 1
ExitCodeOf(report) == IF report["percentage"] >= Tenths(70, 0) THEN 0 ELSE 1

\* str(x), left uninterpreted.
StrOf(x) == [str_of |-> x]

\* self.module_name
module_name(eng) == "Module"

\* The entries set_environment_variables writes to os.environ.
set_environment_variables(eng, report) ==
    [ASSIGNMENT_SCORE |-> StrOf(report["total_points"]),
     POSSIBLE_POINTS |-> StrOf(report["possible_points"]),
     GRADE_PERCENTAGE |-> StrOf(report["percentage"]),
     LETTER_GRADE |-> report["letter_grade"],
     TESTS_PASSED |-> StrOf(report["performance_summary"]["components_passing"]),
     TESTS_TOTAL |-> StrOf(report["performance_summary"]["total_components"]),
     IMPLEMENTATION_RATE |-> StrOf(report["performance_summary"]["implementation_rate"]),
     PASS_RATE |-> StrOf(report["performance_summary"]["pass_rate"]),
     ASSIGNMENT_NAME |-> eng,
     MODULE_NAME |-> module_name(eng)]

\* What display_grade_summary prints: the grade, the points, the passing
\* count, a line per component and the recommendations.
display_grade_summary(report) ==
    [grade |-> <<report["letter_grade"], report["percentage"]>>,
     points |-> <<report["total_points"], report["possible_points"]>>,
     passing |-> <<report["performance_summary"]["components_passing"],
                   report["performance_summary"]["total_components"]>>,
     breakdown |->
        [i \in 1..Len(report["detailed_breakdown"]) |->
            LET details == report["detailed_breakdown"][i].v
            IN  <<IF details["status"] = "passed" THEN "passed"
                  ELSE IF details["status"] = "implemented_with_errors" THEN "warning"
                  ELSE "failed",
                  details["component_name"], details["points_earned"],
                  details["points_possible"]>>],
     recommendations |-> report["improvement_recommendations"]]

----------------------------------------------------------------------------
\* PandasGradingEngine (calculate_grade_old.py)

FUNCTION_CATEGORIES ==
    << [k |-> "load_and_explore",
        v |-> [name |-> "load_and_explore_gis_data", points |-> Pts(2),
               description |-> "Load CSV data and perform basic exploratory analysis",
               concepts |-> <<"pandas.read_csv", "DataFrame.info()", "basic data exploration">>,
               test_method |-> "test_load_and_explore_gis_data"]],
       [k |-> "filter_environmental",
        v |-> [name |-> "filter_environmental_data", points |-> Pts(2),
               description |-> "Filter data using simple conditions",
               concepts |-> <<"boolean indexing", "simple filtering">>,
               test_method |-> "test_filter_environmental_data"]],
       [k |-> "calculate_statistics",
        v |-> [name |-> "calculate_station_statistics", points |-> Pts(2),
               description |-> "Calculate basic summary statistics",
               concepts |-> <<"DataFrame.groupby()", "basic aggregate functions">>,
               test_method |-> "test_calculate_station_statistics"]],
       [k |-> "join_station_data",
        v |-> [name |-> "join_station_data", points |-> Pts(5),
               description |-> "Perform basic data joins",
               concepts |-> <<"DataFrame.merge()", "simple table joins">>,
               test_method |-> "test_join_station_data"]],
       [k |-> "save_processed",
        v |-> [name |-> "save_processed_data", points |-> Pts(5),
               description |-> "Save processed data to output files",
               concepts |-> <<"DataFrame.to_csv()", "file path management", "data validation">>,
               test_method |-> "test_save_processed_data"]],
       [k |-> "containerized_environment",
        v |-> [name |-> "setup_containerized_environment", points |-> Pts(5),
               description |-> "Configure and validate containerized development environment",
               concepts |-> <<"environment validation", "package management", "container benefits">>,
               test_method |-> "test_setup_containerized_environment"]] >>

TOTAL_POSSIBLE_POINTS == 25

\* What the submission shows of one registry entry: the pytest line naming its
\* test method (or none), and whether src/pandas_basics.py implements its function.
OldLineChoices ==
    {Absent} \cup
    {[mark |-> m, implemented |-> d] : m \in {"PASSED", "FAILED", "SKIPPED"}, d \in BOOLEAN}

Irregular(c) == c = Absent \/ c.mark = "SKIPPED"

\* stdout of the pytest run: one line per chosen entry, in registry order.  A
\* line is the set of test-method names and the set of result words it contains.
RECURSIVE OldStdout(_, _)
OldStdout(cats, choice) ==
    IF Len(cats) = 0 THEN <<>>
    ELSE (IF choice[Head(cats).k] = Absent THEN <<>>
          ELSE <<[methods |-> {Head(cats).v["test_method"]},
                  words |-> {choice[Head(cats).k].mark}]>>)
         \o OldStdout(Tail(cats), choice)

OldImplemented(choice) ==
    [n \in {FUNCTION_CATEGORIES[i].v["name"] : i \in 1..Len(FUNCTION_CATEGORIES)} |->
        \E i \in 1..Len(FUNCTION_CATEGORIES) :
            /\ FUNCTION_CATEGORIES[i].v["name"] = n
            /\ choice[FUNCTION_CATEGORIES[i].k] # Absent
            /\ choice[FUNCTION_CATEGORIES[i].k].implemented]

\* launch: what subprocess.run, called without a timeout, does: "ok" when the
\* pytest process ends and its output is captured, "oserror" when it raises,
\* "hang" when the pytest process never ends (the code under test loops) and
\* the call waits for it.
OldLaunchFailures == {"oserror", "hang"}

\* The lines of a suite whose every test passes, and of the same suite when
\* the pytest process dies while it runs the test of registry entry n: the
\* lines of the tests before it are all that was written.
OldAllPass ==
    [k \in DKeySet(FUNCTION_CATEGORIES) |-> [mark |-> "PASSED", implemented |-> TRUE]]

OldCrashedAt(n) ==
    [k \in DKeySet(FUNCTION_CATEGORIES) |->
        IF \E i \in 1..(n - 1) : FUNCTION_CATEGORIES[i].k = k
        THEN OldAllPass[k] ELSE Absent]

\* crashed_at: 0, or the registry entry whose test killed the pytest process;
\* would: the stdout of the suite had no process died.
OldSubmissions ==
    {[launch |-> "ok", stdout |-> OldStdout(FUNCTION_CATEGORIES, c),
      implemented |-> OldImplemented(c), crashed_at |-> 0,
      would |-> OldStdout(FUNCTION_CATEGORIES, c)] :
        c \in {f \in [DKeySet(FUNCTION_CATEGORIES) -> OldLineChoices] :
                  Cardinality({k \in DKeySet(FUNCTION_CATEGORIES) : Irregular(f[k])})
                     <= MaxIrregular}}
    \cup {[launch |-> "ok", stdout |-> OldStdout(FUNCTION_CATEGORIES, OldCrashedAt(n)),
           implemented |-> OldImplemented(OldAllPass), crashed_at |-> n,
           would |-> OldStdout(FUNCTION_CATEGORIES, OldAllPass)] :
             n \in 1..Len(FUNCTION_CATEGORIES)}
    \cup {[launch |-> l, stdout |-> <<>>,
           implemented |-> OldImplemented([k \in DKeySet(FUNCTION_CATEGORIES) |-> Absent]),
           crashed_at |-> 0, would |-> <<>>] :
             l \in OldLaunchFailures}

\* The result detection gives for a function of the submission's source file.
is_function_implemented(sub, function_name) == sub.implemented[function_name]

\* PartialScore that credits the attempt whether or not one was detected.
PartialScoreAlways(function_implemented) == Pts(1)

\* partial_score = 1.0 if function_implemented else 0
PartialScore(function_implemented) == IF function_implemented THEN Pts(1) ELSE 0

\* The result one line of stdout gives a category, or the one it had.
OldLineResult(sub, line, config, previous) ==
    IF config["test_method"] \notin line.methods THEN previous
    ELSE
      LET function_implemented == is_function_implemented(sub, config["name"])
      IN  IF "PASSED" \in line.words
          THEN [passed |-> TRUE, error |-> None, score |-> config["points"],
                function_implemented |-> function_implemented,
                concepts_mastered |-> config["concepts"]]
          ELSE IF "FAILED" \in line.words
          THEN [passed |-> FALSE,
                error |-> IF ~function_implemented
                          THEN Str(<<"Function not implemented - replace pass statement with code">>)
                          ELSE Str(<<"Test failed - check function logic and implementation">>),
                score |-> PartialScore(function_implemented),
                function_implemented |-> function_implemented,
                partial_credit_reason |-> IF function_implemented
                                          THEN Str(<<"Implementation attempt">>) ELSE None]
          ELSE IF "SKIPPED" \in line.words
          THEN [passed |-> FALSE,
                error |-> Str(<<"Test skipped - check for import or syntax errors">>),
                score |-> 0,
                function_implemented |-> function_implemented]
          ELSE previous

OldDefaultResult(error) ==
    [passed |-> FALSE, error |-> error, score |-> 0, function_implemented |-> FALSE]

RECURSIVE OldParseLines(_, _, _)
OldParseLines(sub, lines, results) ==
    IF Len(lines) = 0 THEN results
    ELSE OldParseLines(sub, Tail(lines),
            [i \in 1..Len(results) |->
                [k |-> results[i].k,
                 v |-> OldLineResult(sub, Head(lines), FUNCTION_CATEGORIES[i].v, results[i].v)]])

\* Every category starts as failed; then each line of stdout is read in turn.
parse_test_output(sub, stdout) ==
    OldParseLines(sub, stdout,
        [i \in 1..Len(FUNCTION_CATEGORIES) |->
            [k |-> FUNCTION_CATEGORIES[i].k, v |-> OldDefaultResult(None)]])

OldRunTests(sub) ==
    IF sub.launch = "ok"
    THEN parse_test_output(sub, sub.stdout)
    ELSE [i \in 1..Len(FUNCTION_CATEGORIES) |->
            [k |-> FUNCTION_CATEGORIES[i].k, v |-> OldDefaultResult(Str(<<"no python">>))]]

\* The if/elif chain of PandasGradingEngine.calculate_grade.
OldLetterGrade(percentage) ==
    IF AtLeast(percentage, 90) THEN "A"
    ELSE IF AtLeast(percentage, 80) THEN "B"
    ELSE IF AtLeast(percentage, 70) THEN "C"
    ELSE IF AtLeast(percentage, 60) THEN "D"
    ELSE "F"

\* round(x, 2) of a score.
RoundHundredths(x) ==
    LET u == Milli \div 100
        q == x \div u
        r == x % u
    IN  u * (IF 2 * r > u THEN q + 1
             ELSE IF 2 * r < u THEN q
             ELSE IF q % 2 = 0 THEN q ELSE q + 1)

OldCompetence(results, category) ==
    IF Get(DGet(results, category, <<>>), "passed", FALSE) THEN "competent" ELSE "developing"

OldStatus(result) ==
    IF Get(result, "passed", FALSE) THEN "passed"
    ELSE IF Get(result, "function_implemented", FALSE) THEN "implemented"
    ELSE "not_implemented"

OldRecommendation(result, config) ==
    IF Get(result, "passed", FALSE) THEN <<>>
    ELSE IF ~Get(result, "function_implemented", FALSE)
    THEN << <<"Implement ", config["name"], " function: ", config["description"]>> >>
    ELSE << <<"Fix logic in ", config["name"], " function - check ">>
            \o Join(", ", [i \in 1..Len(config["concepts"]) |-> <<config["concepts"][i]>>]) >>

RECURSIVE OldRecommendations(_)
OldRecommendations(results) ==
    IF Len(results) = 0 THEN <<>>
    ELSE OldRecommendation(Head(results).v, DGet(FUNCTION_CATEGORIES, Head(results).k, <<>>))
         \o OldRecommendations(Tail(results))

OldContext ==
    [skills_assessed |-> <<"s1">>, industry_relevance |-> "r",
     career_preparation |-> "p", next_steps |-> "n", efficiency_focus |-> "e"]

OldCalculateGrade(results) ==
    LET total_score == SumSeq([i \in 1..Len(results) |-> Get(results[i].v, "score", 0)])
        percentage == Percentage(total_score, Pts(TOTAL_POSSIBLE_POINTS))
        Implemented(e) == Get(e.v, "function_implemented", FALSE)
        Passed(e) == Get(e.v, "passed", FALSE)
    IN  [assignment |-> "pandas-basics-streamlined",
         total_points |-> RoundHundredths(total_score),
         possible_points |-> Pts(TOTAL_POSSIBLE_POINTS),
         percentage |-> RoundTenths(percentage),
         letter_grade |-> OldLetterGrade(percentage),
         performance_summary |->
            [functions_implemented |-> CountSeq(results, Implemented),
             tests_passed |-> CountSeq(results, Passed),
             total_functions |-> Len(FUNCTION_CATEGORIES),
             implementation_rate |-> Rate(CountSeq(results, Implemented),
                                          Len(FUNCTION_CATEGORIES))],
         detailed_breakdown |->
            [i \in 1..Len(FUNCTION_CATEGORIES) |->
                LET result == DGet(results, FUNCTION_CATEGORIES[i].k, <<>>)
                    config == FUNCTION_CATEGORIES[i].v
                IN  [k |-> FUNCTION_CATEGORIES[i].k,
                     v |-> [function_name |-> config["name"],
                            points_earned |-> RoundHundredths(Get(result, "score", 0)),
                            points_possible |-> config["points"],
                            status |-> OldStatus(result),
                            concepts_tested |-> config["concepts"],
                            error_message |-> Get(result, "error", None)]]],
         skills_assessment |->
            [core_data_loading |-> OldCompetence(results, "load_and_explore"),
             basic_filtering |-> OldCompetence(results, "filter_environmental"),
             essential_statistics |-> OldCompetence(results, "calculate_statistics"),
             foundation_integration |-> OldCompetence(results, "join_station_data")],
         professional_context |-> OldContext,
         improvement_recommendations |-> OldRecommendations(results)]

\* The environment variables PandasGradingEngine.set_environment_variables
\* writes before it reads grade_report['skills_assessment'].
OldEnvironment(report) ==
    [ASSIGNMENT_SCORE |-> StrOf(report["total_points"]),
     POSSIBLE_POINTS |-> StrOf(report["possible_points"]),
     GRADE_PERCENTAGE |-> StrOf(report["percentage"]),
     LETTER_GRADE |-> report["letter_grade"],
     TESTS_PASSED |-> StrOf(report["performance_summary"]["tests_passed"]),
     TESTS_TOTAL |-> StrOf(report["performance_summary"]["total_functions"]),
     FUNCTIONS_IMPLEMENTED |-> StrOf(report["performance_summary"]["functions_implemented"]),
     IMPLEMENTATION_RATE |-> StrOf(report["performance_summary"]["implementation_rate"])]

\* The keys of grade_report['skills_assessment'] set_environment_variables reads.
OldSkillKeys ==
    {"data_loading_proficiency", "data_filtering_proficiency",
     "statistical_analysis_proficiency", "data_integration_proficiency"}

\* set_environment_variables raises KeyError on a key the report lacks.
OldSetEnvironmentRaises(report) ==
    \E key \in OldSkillKeys : key \notin DOMAIN report["skills_assessment"]

----------------------------------------------------------------------------
\* PandasAnalysisGrader (grade_assignment.py)

\* The abstract methods of BaseGradingEngine.
AbstractMethods == {"define_component_categories", "run_tests", "get_professional_context"}

\* The methods the class of grade_assignment.py defines.
AssignMethods ==
    {"__init__", "get_professional_context", "assess_assignment",
     "_assess_load_and_explore", "_assess_filter_data", "_assess_calculate_statistics",
     "_assess_join_data", "_assess_save_data", "_assess_validate_coordinates",
     "_assess_multi_condition_filtering", "_assess_temporal_analysis",
     "_assess_ai_reflection", "_assess_code_quality", "_run_pytest_test"}

\* Instantiating a class that leaves an abstract method undefined raises TypeError.
InstantiationRaises(methods) == AbstractMethods \ methods # {}

AssignSubmissions == {[file_exists |-> fe] : fe \in BOOLEAN}

----------------------------------------------------------------------------
\* Source text.  A Python str is the sequence of its characters, a file's
\* content is the sequence content.split('\n') of its lines.

\* str.startswith(prefix)
startswith(s, prefix) ==
    Len(s) >= Len(prefix) /\ SubSeq(s, 1, Len(prefix)) = prefix

\* sub in s, for a str s
In(sub, s) ==
    \E i \in 1..(Len(s) - Len(sub) + 1) : SubSeq(s, i, i + Len(sub) - 1) = sub

\* sub in content, for a sub without a newline
InContent(sub, content) == \E n \in 1..Len(content) : In(sub, content[n])

Whitespace == {" ", "\t"}

RECURSIVE lstrip(_)
lstrip(s) ==
    IF Len(s) > 0 /\ Head(s) \in Whitespace THEN lstrip(Tail(s)) ELSE s

RECURSIVE rstrip(_)
rstrip(s) ==
    IF Len(s) > 0 /\ s[Len(s)] \in Whitespace THEN rstrip(SubSeq(s, 1, Len(s) - 1)) ELSE s

\* str.strip()
strip(s) == rstrip(lstrip(s))

\* The elements of a list that satisfy a condition, in order.
RECURSIVE FilterBy(_, _)
FilterBy(s, keep) ==
    IF Len(s) = 0 THEN <<>>
    ELSE (IF Head(keep) THEN <<Head(s)>> ELSE <<>>) \o FilterBy(Tail(s), Tail(keep))

Filter(s, P(_)) == FilterBy(s, [i \in 1..Len(s) |-> P(s[i])])

\* f"def {function_name}("
DefHeader(function_name) == <<"d", "e", "f", " ">> \o function_name \o <<"(">>

\* The kinds of line a function body of a submission is made of, and their text.
LineKinds ==
    {"pass", "pass_note", "comment", "quotes", "prose", "docline", "example", "assign", "return", "assign_passed", "return_passed", "return_none", "blank", "call"}

LineText(s) ==
    IF s = "pass" THEN <<"p", "a", "s", "s">>
    ELSE IF s = "pass_note" THEN <<"p", "a", "s", "s", " ", " ", "#", " ", "x">>
    ELSE IF s = "comment" THEN <<"#", " ", "t", "o", "d", "o">>
    ELSE IF s = "quotes" THEN <<"\"", "\"", "\"">>
    ELSE IF s = "prose" THEN <<"L", "o", "a", "d", "s", ".">>
    ELSE IF s = "docline" THEN <<"\"", "\"", "\"", "L", "o", "a", "d", "s", ".", "\"", "\"", "\"">>
    ELSE IF s = "example" THEN <<">", ">", ">", " ", "d", " ", "=", " ", "f", "(", ")">>
    ELSE IF s = "assign" THEN <<"x", " ", "=", " ", "1">>
    ELSE IF s = "return" THEN <<"r", "e", "t", "u", "r", "n", " ", "x">>
    ELSE IF s = "assign_passed" THEN <<"p", "a", "s", "s", "e", "d", " ", "=", " ", "1">>
    ELSE IF s = "return_passed" THEN <<"r", "e", "t", "u", "r", "n", " ", "p", "a", "s", "s", "e", "d">>
    ELSE IF s = "return_none" THEN <<"r", "e", "t", "u", "r", "n", " ", "N", "o", "n", "e">>
    ELSE IF s = "blank" THEN <<>>
    ELSE IF s = "call" THEN <<"p", "r", "i", "n", "t", "(", "1", ")">>
    ELSE <<>>

Indent == <<" ", " ", " ", " ">>

\* A body line as it stands in the file: blank lines are empty, the others
\* are indented by four spaces.
BodyLine(kind) == IF LineText(kind) = <<>> THEN <<>> ELSE Indent \o LineText(kind)

\* The student's module: an import, the function with the given body, and a
\* helper function after it.
ModuleContent(function_name, body) ==
    << <<"i", "m", "p", "o", "r", "t", " ", "o", "s">>,
       <<>>,
       DefHeader(function_name) \o <<"p", ")", ":">> >>
    \o [i \in 1..Len(body) |-> BodyLine(body[i])]
    \o << <<>>,
          <<"d", "e", "f", " ", "g", "(", "p", ")", ":">>,
          Indent \o <<"r", "e", "t", "u", "r", "n", " ", "p">> >>

\* Another module of src/ that defines no graded function.
HelperContent ==
    << <<"i", "m", "p", "o", "r", "t", " ", "o", "s">>,
       <<"L", "I", "M", "I", "T", " ", "=", " ", "3">> >>

\* The bodies of up to MaxBody lines.
Bodies(n) == UNION {[1..m -> LineKinds] : m \in 0..n}

\* The body of the functions of the student template: a docstring over several
\* lines, TODO comments, and a pass.
TemplateBody ==
    <<"quotes", "prose", "blank", "example", "quotes", "blank",
      "comment", "comment", "blank", "pass_note">>

\* A docstring over several lines and a bare pass.
DocumentedStubBody == <<"quotes", "prose", "quotes", "pass">>

\* A body of four statements.
LongBody == <<"assign", "call", "call", "return">>

\* A body that is a pass statement and nothing else.
BareStubBody == <<"pass">>

NamedBodies == {TemplateBody, DocumentedStubBody, LongBody}

\* The function names: one the student's module defines, one it does not.
DefinedName == <<"f">>
MissingName == <<"h">>

----------------------------------------------------------------------------
\* PythonFunctionGradingEngine.detect_function_implementation and
\* PandasGradingEngine.is_function_implemented, on the text of the files.

\* The submissions the detectors read: src/ holds no file, the student's
\* module, a helper module and the student's module, or a backup of the
\* student's module, which defines the function as a stub or in full, and the
\* student's module.  The files are in the order of the directory scan.
DetectLayouts == {"none", "main", "helper_main", "stub_backup_main", "full_backup_main"}

FilesOf(layout, body) ==
    LET main == [name |-> "pandas_basics.py", content |-> ModuleContent(DefinedName, body)]
        helper == [name |-> "helpers.py", content |-> HelperContent]
        backup(b) == [name |-> "backup_pandas_basics.py",
                      content |-> ModuleContent(DefinedName, b)]
    IN  IF layout = "none" THEN <<>>
        ELSE IF layout = "main" THEN <<main>>
        ELSE IF layout = "helper_main" THEN <<helper, main>>
        ELSE IF layout = "stub_backup_main" THEN <<backup(BareStubBody), main>>
        ELSE <<backup(LongBody), main>>

DetectSubmissions ==
    {[function_name |-> fn, body |-> b, files |-> FilesOf(l, b)] :
        fn \in {DefinedName, MissingName},
        l \in DetectLayouts \ {"none"},
        b \in Bodies(MaxBody) \cup NamedBodies}
    \cup {[function_name |-> fn, body |-> <<>>, files |-> <<>>] :
             fn \in {DefinedName, MissingName}}

\* The lines the loop of detect_function_implementation collects.
RECURSIVE function_lines(_, _, _)
function_lines(lines, header, in_function) ==
    IF Len(lines) = 0 THEN <<>>
    ELSE LET line == Head(lines)
         IN  IF In(header, line) THEN function_lines(Tail(lines), header, TRUE)
             ELSE IF in_function
             THEN IF /\ Len(strip(line)) > 0
                     /\ ~startswith(line, <<" ">>)
                     /\ ~startswith(line, <<"\t">>)
                  THEN <<>>
                  ELSE <<line>> \o function_lines(Tail(lines), header, TRUE)
             ELSE function_lines(Tail(lines), header, FALSE)

implementation_indicators ==
    << <<"r", "e", "t", "u", "r", "n">>,
       <<"=">>,
       <<"i", "f">>,
       <<"f", "o", "r">>,
       <<"w", "h", "i", "l", "e">>,
       <<"t", "r", "y">>,
       <<"w", "i", "t", "h">> >>

KeywordPass == <<"p", "a", "s", "s">>
KeywordNone == <<"N", "o", "n", "e">>

\* The test the detector applies to one line that is left: an indicator is in
\* the line, and neither 'pass' nor 'None' is.
IndicatesImplementation(line) ==
    /\ \E i \in 1..Len(implementation_indicators) : In(implementation_indicators[i], line)
    /\ ~In(KeywordPass, line)
    /\ ~In(KeywordNone, line)

\* The body of the loop over python_files returns True for this file.
DetectedInFile(content, function_name) ==
    /\ InContent(DefHeader(function_name), content)
    /\ LET lines == function_lines(content, DefHeader(function_name), FALSE)
           stripped == [i \in 1..Len(lines) |-> strip(lines[i])]
           Kept(line) == Len(line) > 0 /\ ~startswith(line, <<"#">>)
           non_empty_lines == Filter(stripped, Kept)
       IN  \/ Len(non_empty_lines) > 2
           \/ \E i \in 1..Len(non_empty_lines) : IndicatesImplementation(non_empty_lines[i])

RECURSIVE detect_function_implementation(_, _)
detect_function_implementation(files, function_name) ==
    IF Len(files) = 0 THEN FALSE
    ELSE \/ DetectedInFile(Head(files).content, function_name)
         \/ detect_function_implementation(Tail(files), function_name)

\* The stripped non-blank lines the loop of is_function_implemented collects.
RECURSIVE function_body_lines(_, _, _)
function_body_lines(lines, function_start, in_function) ==
    IF Len(lines) = 0 THEN <<>>
    ELSE LET line == Head(lines)
         IN  IF In(function_start, line)
             THEN function_body_lines(Tail(lines), function_start, TRUE)
             ELSE IF in_function
             THEN IF \/ startswith(strip(line), <<"d", "e", "f", " ">>)
                     \/ /\ Len(strip(line)) > 0
                        /\ ~startswith(line, <<" ">>)
                        /\ ~startswith(line, <<"\t">>)
                  THEN <<>>
                  ELSE (IF Len(strip(line)) > 0 THEN <<strip(line)>> ELSE <<>>)
                       \o function_body_lines(Tail(lines), function_start, TRUE)
             ELSE function_body_lines(Tail(lines), function_start, FALSE)

\* is_function_implemented on the files of the submission directory.
is_function_implemented_in(files, function_name) ==
    LET found == {n \in 1..Len(files) : files[n].name = "pandas_basics.py"}
    IN  /\ found # {}
        /\ LET content == files[CHOOSE n \in found : TRUE].content
               function_start == DefHeader(function_name)
               NonTrivial(line) ==
                   /\ line # KeywordPass
                   /\ ~startswith(line, <<"\"", "\"", "\"">>)
                   /\ ~startswith(line, <<"'", "'", "'">>)
           IN  /\ InContent(function_start, content)
               /\ Len(Filter(function_body_lines(content, function_start, FALSE),
                             NonTrivial)) > 0

----------------------------------------------------------------------------
\* The sample solutions (samples/good/src/pandas_basics.py and
\* samples/medium/src/pandas_basics.py).  A DataFrame is its column names, in
\* order, and its rows, each a function from column name to value; a missing
\* value is NaN.

NaN == "NaN"

\* pd.DataFrame()
EmptyDataFrame == [columns |-> <<>>, rows |-> <<>>]

\* df.empty: an axis of length 0.
IsEmpty(df) == Len(df.columns) = 0 \/ Len(df.rows) = 0

HasColumn(df, col) == \E i \in 1..Len(df.columns) : df.columns[i] = col

RECURSIVE Concat(_)
Concat(seqs) == IF Len(seqs) = 0 THEN <<>> ELSE Head(seqs) \o Concat(Tail(seqs))

\* The columns of the right table a merge on the key adds.
AddedColumns(right, key) == SelectSeq(right.columns, LAMBDA c : c # key)

\* The rows a merge gives for one left row: one per right row with the same
\* key, in the order of the right table; when keep_unmatched, a row with NaN
\* in the added columns if there is none.
MergedRows(l, right, key, keep_unmatched) ==
    LET added == {right.columns[i] : i \in 1..Len(right.columns)} \ {key}
        matches == SelectSeq(right.rows, LAMBDA r : r[key] = l[key])
    IN  IF Len(matches) = 0
        THEN IF keep_unmatched
             THEN << [c \in DOMAIN l \cup added |-> IF c \in DOMAIN l THEN l[c] ELSE NaN] >>
             ELSE <<>>
        ELSE [j \in 1..Len(matches) |->
                [c \in DOMAIN l \cup added |->
                    IF c \in DOMAIN l THEN l[c] ELSE matches[j][c]]]

\* left.merge(right, on=key, how='inner')
merge_inner(left, right, key) ==
    [columns |-> left.columns \o AddedColumns(right, key),
     rows |-> Concat([i \in 1..Len(left.rows) |->
                         MergedRows(left.rows[i], right, key, FALSE)])]

\* left.merge(right, on=key, how='left'), for tables that share the key
\* column only.
merge_left(left, right, key) ==
    [columns |-> left.columns \o AddedColumns(right, key),
     rows |-> Concat([i \in 1..Len(left.rows) |->
                         MergedRows(left.rows[i], right, key, TRUE)])]

\* join_station_data of samples/good.
join_station_data_good(stations_df, readings_df) ==
    IF stations_df = None \/ IsEmpty(stations_df) THEN EmptyDataFrame
    ELSE IF readings_df = None \/ IsEmpty(readings_df) THEN EmptyDataFrame
    ELSE IF ~HasColumn(stations_df, "station_id") THEN EmptyDataFrame
    ELSE IF ~HasColumn(readings_df, "station_id") THEN EmptyDataFrame
    ELSE merge_left(readings_df, stations_df, "station_id")

\* join_station_data of samples/medium.
join_station_data_medium(stations_df, readings_df) ==
    IF stations_df = None \/ IsEmpty(stations_df) \/ readings_df = None \/ IsEmpty(readings_df)
    THEN EmptyDataFrame
    ELSE IF ~HasColumn(stations_df, "station_id") \/ ~HasColumn(readings_df, "station_id")
    THEN EmptyDataFrame
    ELSE merge_left(readings_df, stations_df, "station_id")

Samples == {"good", "medium"}

join_station_data(sample, stations_df, readings_df) ==
    IF sample = "good" THEN join_station_data_good(stations_df, readings_df)
    ELSE join_station_data_medium(stations_df, readings_df)

StationIds == {"STN_001", "STN_002"}

\* The tables of up to MaxRows rows a caller hands over: rows[i] has the
\* station id ids[i] and a value of its own in the other column.
TableOf(ids, column, values) ==
    [columns |-> <<"station_id", column>>,
     rows |-> [i \in 1..Len(ids) |->
                 [c \in {"station_id", column} |->
                     IF c = "station_id" THEN ids[i] ELSE values[i]]]]

IdLists == UNION {[1..n -> StationIds] : n \in 0..MaxRows}

StationNames ==
    <<"Central Park", "Times Square", "Brooklyn Bridge", "Queens Plaza", "Staten Island">>

StationTables == {TableOf(ids, "station_name", StationNames) : ids \in IdLists}

ReadingTables ==
    {TableOf(ids, "temperature_c", [i \in 1..MaxRows |-> 19 + i]) : ids \in IdLists}

\* A table without a station_id column.
UnkeyedTable ==
    [columns |-> <<"station_name">>,
     rows |-> << [c \in {"station_name"} |-> "Central Park"] >>]

JoinSubmissions ==
    {[sample |-> sample, stations_df |-> st, readings_df |-> rd] :
        sample \in Samples,
        st \in StationTables \cup {None, EmptyDataFrame, UnkeyedTable},
        rd \in ReadingTables \cup {None, EmptyDataFrame, UnkeyedTable}}

\* A Python bool a sample function returns, apart from the DataFrames.
PyBool(b) == [bool |-> b]

\* The keys of df.groupby('station_id'), which sorts them.
SortedStationIds == <<"STN_001", "STN_002">>

\* The statistics save_processed_data of samples/good computes: a row per
\* station id of df with the mean temperature, the mean humidity rounded to
\* one decimal, in tenths, and the number of readings.
StationStatistics(df) ==
    LET present == SelectSeq(SortedStationIds,
                             LAMBDA id : \E i \in 1..Len(df.rows) : df.rows[i]["station_id"] = id)
        Group(id) == SelectSeq(df.rows, LAMBDA r : r["station_id"] = id)
        Mean(rows, col) == [num |-> SumSeq([i \in 1..Len(rows) |-> rows[i][col]]),
                            den |-> Len(rows)]
        Stat(id, c) ==
            IF c = "station_id" THEN id
            ELSE IF c = "avg_temperature" THEN Mean(Group(id), "temperature_c")
            ELSE IF c = "avg_humidity"
            THEN RoundTenths([num |-> Mean(Group(id), "humidity_percent").num,
                              den |-> 10 * Len(Group(id))])
            ELSE Len(Group(id))
    IN  [columns |-> <<"station_id", "avg_temperature", "avg_humidity", "reading_count">>,
         rows |-> [k \in 1..Len(present) |->
                     [c \in {"station_id", "avg_temperature", "avg_humidity", "reading_count"}
                        |-> Stat(present[k], c)]]]

\* save_processed_data of samples/good: the value it returns and the files
\* it leaves.  Its body computes station statistics and writes nothing.
save_processed_data_good(df, output_file, fs, files) ==
    IF df = None \/ IsEmpty(df)
    THEN [value |-> EmptyDataFrame, files |-> files]
    ELSE IF ~(/\ HasColumn(df, "station_id") /\ HasColumn(df, "temperature_c")
              /\ HasColumn(df, "humidity_percent"))
    THEN [value |-> EmptyDataFrame, files |-> files]
    ELSE [value |-> StationStatistics(df), files |-> files]

\* save_processed_data of samples/medium.  fs tells what the file system
\* permits: whether output_path.parent.mkdir(parents=True, exist_ok=True)
\* succeeds and whether df.to_csv can write the file.
save_processed_data_medium(df, output_file, fs, files) ==
    IF df = None THEN [value |-> PyBool(FALSE), files |-> files]
    ELSE IF output_file = "" THEN [value |-> PyBool(FALSE), files |-> files]
    ELSE IF ~fs.mkdir_succeeds THEN [value |-> PyBool(FALSE), files |-> files]
    ELSE IF ~fs.write_succeeds THEN [value |-> PyBool(FALSE), files |-> files]
    ELSE [value |-> PyBool(TRUE),
          files |-> Append(files, [path |-> output_file, content |-> df])]

save_processed_data(sample, df, output_file, fs, files) ==
    IF sample = "good" THEN save_processed_data_good(df, output_file, fs, files)
    ELSE save_processed_data_medium(df, output_file, fs, files)

\* Readings with the humidity: the humidity values are in tenths of a percent.
MeasurementTables ==
    {[columns |-> <<"station_id", "temperature_c", "humidity_percent">>,
      rows |-> [i \in 1..Len(ids) |->
                  [c \in {"station_id", "temperature_c", "humidity_percent"} |->
                      IF c = "station_id" THEN ids[i]
                      ELSE IF c = "temperature_c" THEN 19 + i
                      ELSE 600 + 25 * i]]] : ids \in IdLists}

SaveSubmissions ==
    {[sample |-> sample, df |-> df, output_file |-> path,
      fs |-> [mkdir_succeeds |-> mk, write_succeeds |-> wr]] :
        sample \in Samples,
        df \in StationTables \cup MeasurementTables \cup {None, EmptyDataFrame},
        path \in {"", "output/processed_data.csv"},
        mk \in BOOLEAN, wr \in BOOLEAN}

----------------------------------------------------------------------------
\* The programs.

Engines ==
    {"base", "unregistered", "letter", "pandas", "old", "assign", "detect", "runner",
     "join", "save"}

\* The percentages a caller hands to calculate_letter_grade.
LetterSubmissions == {[percentage |-> [num |-> t, den |-> 10]] : t \in 0..(10 * MaxPercent)}

SubmissionsOf(eng) ==
    IF eng = "base" THEN GenericSubmissions
    ELSE IF eng = "unregistered" THEN UnregisteredSubmissions
    ELSE IF eng = "letter" THEN LetterSubmissions
    ELSE IF eng = "pandas" THEN PandasSubmissionsCanonical
    ELSE IF eng = "old" THEN OldSubmissions
    ELSE IF eng = "detect" THEN DetectSubmissions
    ELSE IF eng = "runner" THEN RunnerSubmissions
    ELSE IF eng = "join" THEN JoinSubmissions
    ELSE IF eng = "save" THEN SaveSubmissions
    ELSE AssignSubmissions

Init ==
    /\ engine \in Engines
    /\ submission \in SubmissionsOf(engine)
    /\ test_results = <<>>
    /\ component_categories = <<>>
    /\ grade_report = <<>>
    /\ environ = <<>>
    /\ exit_code = <<>>
    /\ returned = <<>>
    /\ written_files = <<>>
    /\ console = <<>>
    /\ events = <<>>
    /\ pc = IF engine \in {"pandas", "old", "assign"} THEN "start" ELSE "ready"

\* A caller calls calculate_letter_grade(percentage) on an engine.
CalculateLetterGrade ==
    /\ engine = "letter"
    /\ returned' = <<calculate_letter_grade(submission.percentage)>>
    /\ UNCHANGED <<engine, submission, test_results, component_categories,
                   grade_report, environ, exit_code, pc,
                   written_files, console, events>>

\* A caller calls detect_function_implementation(function_name) on a
\* PythonFunctionGradingEngine whose assignment directory is the submission.
DetectFunctionImplementation ==
    /\ engine = "detect"
    /\ pc = "ready"
    /\ returned' = <<detect_function_implementation(submission.files,
                                                    submission.function_name)>>
    /\ pc' = "detect_function_implementation"
    /\ UNCHANGED <<engine, submission, test_results, component_categories,
                   grade_report, environ, exit_code,
                   written_files, console, events>>

\* A caller calls is_function_implemented(function_name) on a
\* PandasGradingEngine whose assignment directory is the submission.
IsFunctionImplemented ==
    /\ engine = "detect"
    /\ pc = "ready"
    /\ returned' = <<is_function_implemented_in(submission.files,
                                                submission.function_name)>>
    /\ pc' = "is_function_implemented"
    /\ UNCHANGED <<engine, submission, test_results, component_categories,
                   grade_report, environ, exit_code,
                   written_files, console, events>>

\* A caller calls _run_pytest_test(test_name) on a PandasAnalysisGrader.  The
\* whole body of the method is inside its try statement.
RunPytestTest ==
    /\ engine = "runner"
    /\ pc = "ready"
    /\ returned' = <<run_pytest_test(submission, submission.test_name)>>
    /\ pc' = "returned"
    /\ UNCHANGED <<engine, submission, test_results, component_categories,
                   grade_report, environ, exit_code,
                   written_files, console, events>>

\* A caller calls join_station_data(stations_df, readings_df) of a sample
\* solution.
JoinStationData ==
    /\ engine = "join"
    /\ pc = "ready"
    /\ returned' = <<join_station_data(submission.sample, submission.stations_df,
                                       submission.readings_df)>>
    /\ pc' = "returned"
    /\ UNCHANGED <<engine, submission, test_results, component_categories,
                   grade_report, environ, exit_code,
                   written_files, console, events>>

\* A caller calls save_processed_data(df, output_file) of a sample solution.
SaveProcessedData ==
    /\ engine = "save"
    /\ pc = "ready"
    /\ LET r == save_processed_data(submission.sample, submission.df,
                                    submission.output_file, submission.fs, written_files)
       IN  /\ returned' = <<r.value>>
           /\ written_files' = r.files
    /\ pc' = "returned"
    /\ UNCHANGED <<engine, submission, test_results, component_categories,
                   grade_report, environ, exit_code, console, events>>

\* The engines whose methods a caller calls one at a time.
CallerEngines == {"base", "unregistered"}

\* if not self.grade_report: self.calculate_grade()
EnsureGraded ==
    IF ~Truthy(grade_report)
    THEN calculate_grade(engine, submission, test_results, component_categories)
    ELSE [test_results |-> test_results,
          component_categories |-> component_categories,
          grade_report |-> grade_report,
          raised |-> FALSE,
          trace |-> <<>>]

\* A method that starts with the lines of EnsureGraded has been called: the
\* engine's fields after them, and the call's entry in events.  "read" is the
\* point where the method reads self.grade_report.
Called(op, r) ==
    /\ test_results' = r.test_results
    /\ component_categories' = r.component_categories
    /\ grade_report' = r.grade_report
    /\ events' = Append(events, [op |-> op,
                                 trace |-> r.trace \o (IF r.raised THEN <<>> ELSE <<"read">>)])

\* A caller of the generic engine calls calculate_grade().
CalculateGrade ==
    /\ engine \in CallerEngines
    /\ Len(events) < MaxCalls
    /\ LET r == calculate_grade(engine, submission, test_results, component_categories)
       IN  /\ test_results' = r.test_results
           /\ component_categories' = r.component_categories
           /\ grade_report' = r.grade_report
           /\ events' = Append(events, [op |-> "calculate_grade", trace |-> r.trace])
    /\ UNCHANGED <<engine, submission, environ, exit_code, returned, pc,
                   written_files, console>>

\* A caller of the generic engine calls get_exit_code().
GetExitCode ==
    /\ engine \in CallerEngines
    /\ Len(events) < MaxCalls
    /\ LET r == EnsureGraded
       IN  /\ Called("get_exit_code", r)
           /\ returned' = IF r.raised THEN returned ELSE <<ExitCodeOf(r.grade_report)>>
    /\ UNCHANGED <<engine, submission, environ, exit_code, pc, written_files, console>>

\* A caller of the generic engine calls set_environment_variables().
SetEnvironmentVariables ==
    /\ engine \in CallerEngines
    /\ Len(events) < MaxCalls
    /\ LET r == EnsureGraded
       IN  /\ Called("set_environment_variables", r)
           /\ environ' = IF r.raised THEN environ
                         ELSE set_environment_variables(engine, r.grade_report)
    /\ UNCHANGED <<engine, submission, exit_code, returned, pc, written_files, console>>

\* A caller of the generic engine calls save_grade_report().  The path the
\* method returns is the path of written_files.
SaveGradeReport ==
    /\ engine \in CallerEngines
    /\ Len(events) < MaxCalls
    /\ LET r == EnsureGraded
       IN  /\ Called("save_grade_report", r)
           /\ written_files' = IF r.raised THEN written_files
                             ELSE <<[path |-> "grade-report.json", content |-> r.grade_report]>>
    /\ UNCHANGED <<engine, submission, environ, exit_code, returned, pc, console>>

\* A caller of the generic engine calls display_grade_summary().
DisplayGradeSummary ==
    /\ engine \in CallerEngines
    /\ Len(events) < MaxCalls
    /\ LET r == EnsureGraded
       IN  /\ Called("display_grade_summary", r)
           /\ console' = IF r.raised THEN console
                         ELSE Append(console, display_grade_summary(r.grade_report))
    /\ UNCHANGED <<engine, submission, environ, exit_code, returned, pc, written_files>>

\* main() of calculate_grade.py: construct the grader, calculate the grade,
\* return the exit code; the handler of the try block returns 1.
MainCalculateGrade ==
    /\ engine = "pandas"
    /\ pc = "start"
    /\ LET r == calculate_grade(engine, submission, <<>>, <<>>)
       IN  /\ test_results' = r.test_results
           /\ component_categories' = r.component_categories
           /\ grade_report' = r.grade_report
           /\ events' = Append(events, [op |-> "calculate_grade", trace |-> r.trace])
           /\ exit_code' = IF r.raised THEN <<1>> ELSE <<ExitCodeOf(r.grade_report)>>
    /\ pc' = "exited"
    /\ UNCHANGED <<engine, submission, environ, returned, written_files, console>>

\* main() of calculate_grade_old.py, first call: grading_engine.run_tests().
\* The call returns once subprocess.run has returned or raised.
OldMainRunTests ==
    /\ engine = "old"
    /\ pc = "start"
    /\ submission.launch # "hang"
    /\ test_results' = OldRunTests(submission)
    /\ pc' = "tested"
    /\ UNCHANGED <<engine, submission, component_categories, grade_report, environ,
                   exit_code, returned,
                   written_files, console, events>>

\* main() of calculate_grade_old.py, second call: calculate_grade().
OldMainCalculateGrade ==
    /\ engine = "old"
    /\ pc = "tested"
    /\ grade_report' = OldCalculateGrade(test_results)
    /\ pc' = "graded"
    /\ UNCHANGED <<engine, submission, test_results, component_categories, environ,
                   exit_code, returned,
                   written_files, console, events>>

\* main() of calculate_grade_old.py, the rest: set_environment_variables(),
\* save_grade_report(), the summary and the exit code.  An exception that
\* leaves main() ends the process with status 1.
OldMainReport ==
    /\ engine = "old"
    /\ pc = "graded"
    /\ environ' = OldEnvironment(grade_report)
    /\ IF OldSetEnvironmentRaises(grade_report)
       THEN /\ exit_code' = <<1>>
            /\ pc' = "crashed"
       ELSE /\ exit_code' = <<ExitCodeOf(grade_report)>>
            /\ pc' = "exited"
    /\ UNCHANGED <<engine, submission, test_results, component_categories, grade_report,
                   returned,
                   written_files, console, events>>

\* main() of grade_assignment.py: the constructor call is inside the try
\* block whose handler returns 1.
MainGradeAssignment ==
    /\ engine = "assign"
    /\ pc = "start"
    /\ IF InstantiationRaises(AssignMethods)
       THEN exit_code' = <<1>>
       ELSE exit_code' = <<0>>
    /\ pc' = "exited"
    /\ UNCHANGED <<engine, submission, test_results, component_categories,
                   grade_report, environ, returned,
                   written_files, console, events>>

Next ==
    \/ CalculateLetterGrade
    \/ DetectFunctionImplementation
    \/ IsFunctionImplemented
    \/ RunPytestTest
    \/ JoinStationData
    \/ SaveProcessedData
    \/ CalculateGrade
    \/ GetExitCode
    \/ SetEnvironmentVariables
    \/ SaveGradeReport
    \/ DisplayGradeSummary
    \/ MainCalculateGrade
    \/ OldMainRunTests
    \/ OldMainCalculateGrade
    \/ OldMainReport
    \/ MainGradeAssignment

Spec == Init /\ [][Next]_vars

\* The command-line programs alone, for the question whether a run that has
\* started ends.  What a run waits for is the test processes, so the
\* submissions differ in what those do and are alike in the rest.
MainEngines == {"pandas", "old", "assign"}

MainSubmissionsOf(eng) ==
    IF eng = "pandas"
    THEN {sub \in PandasSubmissionsCanonical :
            /\ sub.file_exists /\ sub.small /\ sub.has_import /\ sub.has_comments
            /\ sub.functions_found = 5
            /\ Cardinality({t \in PandasSelectorSet :
                              sub.proc[t].kind # "exit" \/ sub.proc[t].returncode # 0}) <= 1}
    ELSE IF eng = "old"
    THEN {sub \in OldSubmissions :
            \A n \in DOMAIN sub.implemented : sub.implemented[n] <=>
                \E i \in 1..Len(FUNCTION_CATEGORIES) :
                    /\ FUNCTION_CATEGORIES[i].v["name"] = n
                    /\ \E l \in 1..Len(sub.stdout) :
                          FUNCTION_CATEGORIES[i].v["test_method"] \in sub.stdout[l].methods}
    ELSE AssignSubmissions

InitMain ==
    /\ engine \in MainEngines
    /\ submission \in MainSubmissionsOf(engine)
    /\ test_results = <<>>
    /\ component_categories = <<>>
    /\ grade_report = <<>>
    /\ environ = <<>>
    /\ exit_code = <<>>
    /\ returned = <<>>
    /\ written_files = <<>>
    /\ console = <<>>
    /\ events = <<>>
    /\ pc = "start"

NextMain ==
    \/ MainCalculateGrade
    \/ OldMainRunTests
    \/ OldMainCalculateGrade
    \/ OldMainReport
    \/ MainGradeAssignment

\* The programs are sequential: a step that can be taken is taken.
FairSpec == InitMain /\ [][NextMain]_vars /\ WF_vars(NextMain)

----------------------------------------------------------------------------
\* What the properties below read off a state.

Graded == engine \in {"base", "pandas", "old"} /\ Truthy(grade_report)

\* The registry and the possible points of the engine that runs.
RegistryOf(eng) ==
    IF eng = "old" THEN FUNCTION_CATEGORIES ELSE define_component_categories(eng)

PossibleOf(eng) ==
    IF eng = "old" THEN Pts(TOTAL_POSSIBLE_POINTS) ELSE total_possible_points(eng)

PointsOf(eng, id) == DGet(RegistryOf(eng), id, <<>>)["points"]

ScoreSum == SumSeq([i \in 1..Len(test_results) |-> test_results[i].v["score"]])

\* total / possible * 100 of the run, unrounded.
RawPercentage == Percentage(ScoreSum, PossibleOf(engine))

Abs(x) == IF x < 0 THEN -x ELSE x

\* The scoped test of component id ran and its process reported success.
TestPassed(id) ==
    IF engine = "pandas"
    THEN /\ DHas(PandasSelectors, id)
         /\ id = "load_and_explore" => submission.file_exists
         /\ submission.proc[DGet(PandasSelectors, id, "")].kind = "exit"
         /\ submission.proc[DGet(PandasSelectors, id, "")].returncode = 0
    ELSE /\ engine = "old"
         /\ \E n \in 1..Len(submission.stdout) :
              /\ DGet(FUNCTION_CATEGORIES, id, <<>>)["test_method"]
                     \in submission.stdout[n].methods
              /\ "PASSED" \in submission.stdout[n].words

\* The letter g is the one the bands A >= 90 > B >= 80 > C >= 70 > D >= 60 > F
\* give the percentage p.
InBand(g, p) ==
    /\ g = "A" <=> AtLeast(p, 90)
    /\ g = "B" <=> (AtLeast(p, 80) /\ ~AtLeast(p, 90))
    /\ g = "C" <=> (AtLeast(p, 70) /\ ~AtLeast(p, 80))
    /\ g = "D" <=> (AtLeast(p, 60) /\ ~AtLeast(p, 70))
    /\ g = "F" <=> ~AtLeast(p, 60)

----------------------------------------------------------------------------
\* C1: the letter grade of a percentage p is A iff p >= 90, B iff 80 <= p < 90,
\* C iff 70 <= p < 80, D iff 60 <= p < 70 and F iff p < 60, each boundary value
\* getting the higher letter: for calculate_letter_grade called on any tenth of
\* a percent, and for the letter in the report of each engine against the
\* unrounded percentage of its run.
C1_LetterGradeBands ==
    /\ (engine = "letter" /\ returned # <<>>) => InBand(returned[1], submission.percentage)
    /\ Graded => InBand(grade_report["letter_grade"], RawPercentage)

\* calculate_letter_grade(90.0) has returned "A".
C1_Witness ==
    /\ engine = "letter"
    /\ submission.percentage = [num |-> 10 * 90, den |-> 10]
    /\ returned = <<"A">>

\* C2: get_exit_code returns 0 exactly when total_points / possible_points * 100
\* >= 70.0, so that 70.0 succeeds and 69.99 fails.
C2_ExitCodeLiteralThreshold ==
    (engine = "base" /\ returned # <<>>) =>
        (returned[1] = 0 <=> AtLeast(RawPercentage, 70))

\* C3: each command-line entry point exits with 0 when the graded submission's
\* percentage is >= 70.0 and with a non-zero status when it is below.
C3_ExitStatusFollowsPercentage ==
    (engine \in {"pandas", "old"} /\ exit_code # <<>> /\ Truthy(grade_report)) =>
        (exit_code[1] = 0 <=> AtLeast(RawPercentage, 70))

\* C4: after a grading run of PandasAnalysisGrader or PandasGradingEngine every
\* component's score is between 0 and the component's points, and a component
\* whose test passed has exactly its points.
C4_ScoreWithinPoints ==
    (engine \in {"pandas", "old"} /\ Truthy(test_results)) =>
        \A i \in 1..Len(test_results) :
            LET id == test_results[i].k
                score == test_results[i].v["score"]
            IN  /\ 0 <= score
                /\ score <= PointsOf(engine, id)
                /\ TestPassed(id) => score = PointsOf(engine, id)

\* A PandasAnalysisGrader run with a passing test class and a partial score
\* for code quality.
C4_Witness ==
    /\ engine = "pandas"
    /\ Truthy(test_results)
    /\ TestPassed("filter_data")
    /\ DGet(test_results, "filter_data", <<>>)["score"] = Pts(2)
    /\ DGet(test_results, "code_quality", <<>>)["score"] \notin {0, Pts(1)}

\* C5 as stated: a component whose function the detector reports as not
\* implemented has score 0, also when its test is reported as passed.
C5_StubScoresZero ==
    (engine = "old" /\ Truthy(test_results)) =>
        \A i \in 1..Len(test_results) :
            ~is_function_implemented(submission, FUNCTION_CATEGORIES[i].v["name"])
                => test_results[i].v["score"] = 0

\* C5 as amended: a component whose function the detector reports as not
\* implemented and whose test is not reported as passed has score 0.
C5_FailingStubScoresZero ==
    (engine = "old" /\ Truthy(test_results)) =>
        \A i \in 1..Len(test_results) :
            (/\ ~is_function_implemented(submission, FUNCTION_CATEGORIES[i].v["name"])
             /\ ~test_results[i].v["passed"])
                => test_results[i].v["score"] = 0

\* A FAILED test of a function that is not implemented has been scored 0.
C5_Witness ==
    /\ engine = "old"
    /\ Truthy(test_results)
    /\ \E n \in 1..Len(submission.stdout) :
          /\ "test_join_station_data" \in submission.stdout[n].methods
          /\ "FAILED" \in submission.stdout[n].words
    /\ ~is_function_implemented(submission, "join_station_data")
    /\ DGet(test_results, "join_station_data", <<>>)["score"] = 0

\* The report's entry of a component.
Breakdown(id) == DGet(grade_report["detailed_breakdown"], id, <<>>)

\* C6: in the report of PandasAnalysisGrader a component's status is "passed"
\* exactly when its scoped test passed, and one of "not_implemented" and
\* "implemented_with_errors" exactly when it failed.
C6_StatusFollowsTestOutcome ==
    (engine = "pandas" /\ Truthy(grade_report)) =>
        \A i \in 1..Len(PandasSelectors) :
            LET id == PandasSelectors[i].k
            IN  /\ Breakdown(id)["status"] = "passed" <=> TestPassed(id)
                /\ Breakdown(id)["status"] \in {"not_implemented", "implemented_with_errors"}
                       <=> ~TestPassed(id)

\* The registry components run_tests returned no entry for.
MissingResults == DKeySet(component_categories) \ DKeySet(test_results)

\* C7: a registry component without an entry in the test results is reported
\* with points_earned 0 and status "not_implemented".
C7_MissingResultNotImplemented ==
    (engine = "base" /\ Truthy(grade_report)) =>
        \A id \in MissingResults :
            /\ Breakdown(id)["points_earned"] = 0
            /\ Breakdown(id)["status"] = "not_implemented"

\* C8: total_points is the sum of the scores of all components, and percentage
\* is total_points / possible_points * 100 rounded to one decimal place: no
\* further from it than 0.05.
C8_TotalAndPercentage ==
    Graded =>
        /\ grade_report["total_points"] = ScoreSum
        /\ 2 * Abs(grade_report["percentage"] * grade_report["possible_points"]
                    - 10 * 100 * grade_report["total_points"])
              <= grade_report["possible_points"]

\* A report of 6.999 of 10 points, whose percentage 69.99 is rounded to 70.0.
C8_Witness ==
    /\ engine = "base"
    /\ Truthy(grade_report)
    /\ grade_report["total_points"] = Pts(7) - 1
    /\ grade_report["possible_points"] = Pts(10)
    /\ grade_report["percentage"] = Tenths(70, 0)

RegistryPoints(eng) ==
    SumSeq([i \in 1..Len(RegistryOf(eng)) |-> RegistryOf(eng)[i].v["points"]])

\* C9: the report's possible_points is the sum of the points of the components
\* of the engine's registry.
C9_PossibleIsRegistrySum ==
    Graded => grade_report["possible_points"] = RegistryPoints(engine)

\* C10: after calculate_grade the keys of detailed_breakdown are the
\* registry's component ids and are the keys of the test results.
C10_KeySetsEqual ==
    Graded =>
        /\ DKeySet(grade_report["detailed_breakdown"]) = DKeySet(RegistryOf(engine))
        /\ DKeySet(grade_report["detailed_breakdown"]) = DKeySet(test_results)

\* The run of the end-to-end scenario: of the two 5-point components A and B,
\* A's test passed and B is an unimplemented stub whose test failed.
ScenarioRun ==
    /\ engine = "base"
    /\ Truthy(grade_report)
    /\ DHas(test_results, "A") /\ DHas(test_results, "B")
    /\ LET a == DGet(test_results, "A", <<>>)
           b == DGet(test_results, "B", <<>>)
       IN  /\ a["passed"] /\ a["score"] = Pts(5)
           /\ ~b["passed"] /\ b["score"] = 0 /\ ~b["implementation_detected"]

\* C11: for two components A and B of 5 points each, A passing and B an
\* unimplemented stub whose test fails, the report has total_points 5,
\* percentage 50.0, letter grade F and status "not_implemented" for B, and
\* get_exit_code returns a non-zero code.
C11_EndToEndScenario ==
    ScenarioRun =>
        /\ grade_report["total_points"] = Pts(5)
        /\ grade_report["possible_points"] = Pts(10)
        /\ grade_report["percentage"] = Tenths(50, 0)
        /\ grade_report["letter_grade"] = "F"
        /\ Breakdown("B")["status"] = "not_implemented"
        /\ Breakdown("A")["status"] = "passed"
        /\ returned # <<>> => returned[1] # 0

\* The scenario has been graded and get_exit_code has returned.
C11_Witness == ScenarioRun /\ returned = <<1>>

\* A detector has returned its verdict on a function of the student's module.
Detected ==
    /\ engine = "detect"
    /\ returned # <<>>
    /\ submission.files # <<>>
    /\ submission.function_name = DefinedName

AssignmentKinds == {"assign", "assign_passed"}
ReturnKinds == {"return", "return_passed", "return_none"}

\* The body is made of assignments and returns, at least one of each.
AssignsAndReturns(body) ==
    /\ \A i \in 1..Len(body) : body[i] \in AssignmentKinds \cup ReturnKinds
    /\ \E i \in 1..Len(body) : body[i] \in AssignmentKinds
    /\ \E i \in 1..Len(body) : body[i] \in ReturnKinds

\* C12: the detector returns False for a function whose body is only a pass,
\* True for a function whose body holds an assignment and a return, and False
\* for a function name whose definition header is in no scanned file.
C12_DetectorClassifies ==
    /\ (Detected /\ submission.body = <<"pass">>) => returned[1] = FALSE
    /\ (Detected /\ AssignsAndReturns(submission.body)) => returned[1] = TRUE
    /\ (engine = "detect" /\ returned # <<>>
          /\ \A n \in 1..Len(submission.files) :
                ~InContent(DefHeader(submission.function_name), submission.files[n].content))
            => returned[1] = FALSE

\* The body is a stub in the shape of the student template: docstring,
\* comments and blank lines around a single pass.
StubBody(body) ==
    \/ body \in {TemplateBody, DocumentedStubBody}
    \/ /\ \A i \in 1..Len(body) :
              body[i] \in {"blank", "comment", "docline", "pass", "pass_note"}
       /\ Cardinality({i \in 1..Len(body) : body[i] \in {"pass", "pass_note"}}) = 1

\* C13: the detector ignores blank lines, comment lines and the lines of a
\* docstring block, so that a function whose body is a docstring over several
\* lines, comments and a single pass is classified as not implemented.
C13_TemplateStubNotImplemented ==
    (Detected /\ StubBody(submission.body)) => returned[1] = FALSE

\* _run_pytest_test has returned; the process it ran.
Ran == engine = "runner" /\ returned # <<>>

RanProcess == submission.proc[submission.test_name]

\* C14: the outcome of _run_pytest_test has passed = True exactly when the
\* test process exited with status 0; its error is the empty string when
\* passed, and stdout + stderr of the process when it exited with another
\* status.
C14_PassedIffExitStatusZero ==
    Ran =>
        /\ returned[1]["passed"] <=> (RanProcess.kind = "exit" /\ RanProcess.returncode = 0)
        /\ returned[1]["passed"] => returned[1]["error"] = <<>>
        /\ (RanProcess.kind = "exit" /\ ~returned[1]["passed"]) =>
              returned[1]["error"] = RanProcess.stdout \o RanProcess.stderr

\* A test process that wrote to stdout and stderr and exited with status 0.
C14_Witness ==
    /\ Ran
    /\ RanProcess.kind = "exit" /\ RanProcess.returncode = 0
    /\ RanProcess.stdout = <<"out">> /\ RanProcess.stderr = <<"err">>
    /\ returned[1]["passed"] /\ returned[1]["error"] = <<>>

\* C15: _run_pytest_test returns an outcome whatever the process does: after a
\* timeout passed is False and the error says that the execution timed out,
\* after a launch error passed is False and the error holds the exception's
\* message.
C15_RunnerNeverRaises ==
    (engine = "runner" /\ pc # "ready") =>
        /\ pc = "returned"
        /\ Len(returned) = 1
        /\ DOMAIN returned[1] = {"passed", "error", "stdout", "stderr"}
        /\ RanProcess.kind = "timeout" =>
              /\ ~returned[1]["passed"]
              /\ returned[1]["error"] = <<"Test execution timed out">>
        /\ RanProcess.kind = "oserror" =>
              /\ ~returned[1]["passed"]
              /\ \E n \in 1..Len(returned[1]["error"]) :
                    SubSeq(returned[1]["error"], n, Len(returned[1]["error"]))
                        = RanProcess.message

\* A test process that did not end within the timeout.
C15_Witness ==
    /\ Ran
    /\ RanProcess.kind = "timeout"
    /\ returned[1]["error"] = <<"Test execution timed out">>

\* C16: every grading run completes, also when the code under test never
\* returns: each main that has started eventually exits.
C16_EveryRunCompletes == (pc = "start") ~> (exit_code # <<>>)

\* The submission had no test process ended abnormally: a PandasAnalysisGrader
\* test that timed out or could not be launched exits with status 0 instead,
\* and the pytest process of PandasGradingEngine runs to its end.
Healed(sub) ==
    IF engine = "pandas"
    THEN [sub EXCEPT !.proc =
            [t \in DOMAIN sub.proc |->
                IF Abnormal(sub.proc[t])
                THEN [kind |-> "exit", returncode |-> 0,
                      stdout |-> <<"out">>, stderr |-> <<"err">>]
                ELSE sub.proc[t]]]
    ELSE [sub EXCEPT !.stdout = sub.would, !.crashed_at = 0]

\* The component's own test ended abnormally.
HitByError(i) ==
    IF engine = "pandas"
    THEN /\ DHas(PandasSelectors, test_results[i].k)
         /\ Abnormal(submission.proc[DGet(PandasSelectors, test_results[i].k, "")])
    ELSE submission.crashed_at = i

\* C17: a crash or timeout while one component is assessed gives that
\* component a failing outcome of score 0, leaves the outcome of every other
\* component as it is without the error, and the report covers every
\* registry component.
C17_ErrorsStayLocal ==
    (engine \in {"pandas", "old"} /\ Truthy(test_results)) =>
        /\ \A i \in 1..Len(test_results) :
              IF HitByError(i)
              THEN test_results[i].v["score"] = 0
              ELSE test_results[i].v =
                     (IF engine = "pandas" THEN PandasRunTests(Healed(submission))
                      ELSE OldRunTests(Healed(submission)))[i].v
        /\ Truthy(grade_report) =>
              DKeySet(grade_report["detailed_breakdown"]) = DKeySet(RegistryOf(engine))

\* C18: a configuration error, such as a submission without its source file
\* src/pandas_basics.py, ends the run as a setup failure: no grade report is
\* emitted that scores the run.
C18_ConfigurationErrorNotGraded ==
    (engine = "pandas" /\ ~submission.file_exists) => ~Truthy(grade_report)

\* The components of the engine's registry that have a test, in registry
\* order, and whether the test of one passed.
TestedComponents ==
    LET ids == DKeys(RegistryOf(engine))
        HasTest(id) == engine = "pandas" => DHas(PandasSelectors, id)
    IN  Filter(ids, HasTest)

ComponentPassed(id) ==
    IF engine = "base"
    THEN DHas(test_results, id) /\ DGet(test_results, id, <<>>)["passed"]
    ELSE TestPassed(id)

\* The names of the components whose test did not pass, in registry order.
FailingNames ==
    LET Failing(id) == ~ComponentPassed(id)
        ids == Filter(TestedComponents, Failing)
    IN  [i \in 1..Len(ids) |-> DGet(RegistryOf(engine), ids[i], <<>>)["name"]]

\* The recommendations before the global ones, and the component each names.
PerComponentRecommendations ==
    LET recs == grade_report["improvement_recommendations"]
    IN  IF engine = "old" THEN recs
        ELSE SubSeq(recs, 1,
                    Len(recs) - Len(GeneralRecommendations(
                                      grade_report["performance_summary"]["pass_rate"])))

RecommendedNames ==
    LET names == [i \in 1..Len(PerComponentRecommendations) |->
                     PerComponentRecommendations[i][2]]
        Tested(n) == \E i \in 1..Len(TestedComponents) :
                        DGet(RegistryOf(engine), TestedComponents[i], <<>>)["name"] = n
    IN  Filter(names, Tested)

\* C19: the per-component recommendations hold one entry for each component
\* whose test did not pass and none for a passing one, in registry order.
C19_OneRecommendationPerFailure ==
    Graded => RecommendedNames = FailingNames

\* The share, in tenths of a percent, of the tested registry components whose
\* test passed.
SharePassed ==
    LET Passing(id) == ComponentPassed(id)
    IN  Rate(Len(Filter(TestedComponents, Passing)), Len(TestedComponents))

\* The global recommendations at the end of the list.
GlobalRecommendations ==
    LET recs == grade_report["improvement_recommendations"]
    IN  SubSeq(recs, Len(PerComponentRecommendations) + 1, Len(recs))

ReviewInstructions == <<"Review assignment instructions and examples carefully">>
FocusOnEdgeCases == <<"Focus on edge cases and error handling in your implementations">>

\* C20: after the per-component recommendations comes the "review
\* instructions" recommendation when the share of components whose test
\* passed is below 50, the "focus on edge cases" recommendation when it is at
\* least 50 and below 80, and no global recommendation when it is at least 80.
C20_GlobalRecommendationByPassRate ==
    (engine \in {"base", "pandas"} /\ Truthy(grade_report)) =>
        LET Has(r) == \E i \in 1..Len(GlobalRecommendations) : GlobalRecommendations[i] = r
        IN  /\ Has(ReviewInstructions) <=> SharePassed < Tenths(50, 0)
            /\ Has(FocusOnEdgeCases) <=>
                  (SharePassed >= Tenths(50, 0) /\ SharePassed < Tenths(80, 0))
            /\ SharePassed >= Tenths(80, 0) => GlobalRecommendations = <<>>

\* The components whose test ran and failed with a diagnostic, and the
\* diagnostic the test runner returned for each.
FailedWithDiagnostic(id) ==
    IF engine = "pandas"
    THEN /\ DHas(PandasSelectors, id)
         /\ id = "load_and_explore" => submission.file_exists
         /\ ~run_pytest_test(submission, DGet(PandasSelectors, id, ""))["passed"]
    ELSE /\ DHas(test_results, id)
         /\ ~DGet(test_results, id, <<>>)["passed"]
         /\ TruthyStr(DGet(test_results, id, <<>>)["error"])

DiagnosticOf(id) ==
    IF engine = "pandas"
    THEN run_pytest_test(submission, DGet(PandasSelectors, id, ""))["error"]
    ELSE DGet(test_results, id, <<>>)["error"].str

\* C21: for every component whose test failed, the feedback of the component
\* in detailed_breakdown contains the diagnostic the test runner returned for
\* it, as it is.
C21_FeedbackHoldsDiagnostic ==
    (engine \in {"base", "pandas"} /\ Truthy(grade_report)) =>
        \A id \in DKeySet(RegistryOf(engine)) :
            FailedWithDiagnostic(id) => In(DiagnosticOf(id), Breakdown(id)["feedback"])

\* The fields of a report other than its timestamps and timings.
ReportFields ==
    {"detailed_breakdown", "total_points", "possible_points", "percentage",
     "letter_grade", "performance_summary", "improvement_recommendations"}

\* The report of the first calculate_grade of a new engine instance on the
\* submission.
FirstReport == calculate_grade(engine, submission, <<>>, <<>>).grade_report

\* C22: whatever calls an instance of a BaseGradingEngine subclass has served,
\* its report has the detailed_breakdown, total_points, possible_points,
\* percentage, letter_grade, performance_summary and
\* improvement_recommendations of the first calculate_grade of a new instance
\* on the same submission: a second run, on the same instance or on another,
\* repeats the first.
C22_SecondRunRepeatsFirst ==
    (engine \in CallerEngines \cup {"pandas"} /\ Truthy(grade_report)) =>
        LET first == FirstReport
        IN  \A field \in ReportFields : grade_report[field] = first[field]

\* calculate_grade has been called twice on one instance whose tests gave
\* points to A and failed B.
C22_Witness ==
    /\ engine = "base"
    /\ Len(events) = 2
    /\ events[1].op = "calculate_grade" /\ events[2].op = "calculate_grade"
    /\ grade_report["total_points"] = Pts(4)
    /\ Len(grade_report["improvement_recommendations"]) = 3
    /\ grade_report = FirstReport

\* set_environment_variables has been called on the engine after a grading
\* run: by a caller of the generic engine, or by main() of
\* calculate_grade_old.py.
EnvironmentCall ==
    \/ /\ engine = "base"
       /\ \E i \in 1..Len(events) : events[i].op = "set_environment_variables"
    \/ /\ engine = "old"
       /\ pc \in {"exited", "crashed"}

\* The call returned to its caller.
EnvironmentCallCompleted ==
    IF engine = "old" THEN pc = "exited"
    ELSE \A i \in 1..Len(events) :
            events[i].op = "set_environment_variables" =>
                events[i].trace[Len(events[i].trace)] = "read"

\* The passing and the total count of the report.
PassingCount ==
    IF engine = "old" THEN grade_report["performance_summary"]["tests_passed"]
    ELSE grade_report["performance_summary"]["components_passing"]

TotalCount ==
    IF engine = "old" THEN grade_report["performance_summary"]["total_functions"]
    ELSE grade_report["performance_summary"]["total_components"]

\* C23: a call of set_environment_variables after a grading run returns, and
\* leaves ASSIGNMENT_SCORE, POSSIBLE_POINTS, GRADE_PERCENTAGE, LETTER_GRADE,
\* TESTS_PASSED and TESTS_TOTAL equal to str() of the report's total_points,
\* possible_points, percentage, to its letter_grade, and to str() of its
\* passing and total counts.
C23_EnvironmentMirrorsReport ==
    EnvironmentCall =>
        /\ EnvironmentCallCompleted
        /\ environ # <<>>
        /\ environ["ASSIGNMENT_SCORE"] = StrOf(grade_report["total_points"])
        /\ environ["POSSIBLE_POINTS"] = StrOf(grade_report["possible_points"])
        /\ environ["GRADE_PERCENTAGE"] = StrOf(grade_report["percentage"])
        /\ environ["LETTER_GRADE"] = grade_report["letter_grade"]
        /\ environ["TESTS_PASSED"] = StrOf(PassingCount)
        /\ environ["TESTS_TOTAL"] = StrOf(TotalCount)

\* join_station_data has returned to a caller that handed it tables with a
\* station_id column, the readings table not empty.
Joined ==
    /\ engine = "join"
    /\ returned # <<>>
    /\ submission.stations_df # None /\ HasColumn(submission.stations_df, "station_id")
    /\ submission.readings_df # None /\ HasColumn(submission.readings_df, "station_id")
    /\ Len(submission.readings_df.rows) > 0

\* The station_id values of a table.
StationIdsOf(df) == {df.rows[i]["station_id"] : i \in 1..Len(df.rows)}

\* The stations of the table that have the station id of a reading.
StationsOf(reading) ==
    {j \in 1..Len(submission.stations_df.rows) :
        submission.stations_df.rows[j]["station_id"] = reading["station_id"]}

\* C24 as stated: for any stations table and any readings table that is not
\* empty, both with a station_id column, the result has one row per reading
\* and the station_id values of the readings.
C24_OneRowPerReading ==
    Joined =>
        /\ Len(returned[1].rows) = Len(submission.readings_df.rows)
        /\ StationIdsOf(returned[1]) = StationIdsOf(submission.readings_df)

\* C24 as amended: when the stations table is not empty either, the result
\* has, for each reading, one row per station row with the reading's
\* station_id, and one row when there is none: one row per reading when no
\* station_id occurs twice in the stations table.  Its station_id values are
\* those of the readings.  When the stations table is empty the result is
\* the empty DataFrame.
C24_RowsPerReadingAndStation ==
    Joined =>
        LET readings == submission.readings_df.rows
            Rows(i) == IF StationsOf(readings[i]) = {} THEN 1
                       ELSE Cardinality(StationsOf(readings[i]))
        IN  IF Len(submission.stations_df.rows) = 0
            THEN returned[1] = EmptyDataFrame
            ELSE /\ Len(returned[1].rows) = SumSeq([i \in 1..Len(readings) |-> Rows(i)])
                 /\ StationIdsOf(returned[1]) = StationIdsOf(submission.readings_df)
                 /\ (\A i \in 1..Len(readings) : Cardinality(StationsOf(readings[i])) <= 1)
                        => Len(returned[1].rows) = Len(readings)

\* Two readings, one of a station of the table and one of a station that is
\* not in it, have been joined to two rows.
C24_Witness ==
    /\ Joined
    /\ Len(submission.readings_df.rows) = 2
    /\ StationIdsOf(submission.readings_df) = {"STN_001", "STN_002"}
    /\ StationIdsOf(submission.stations_df) = {"STN_001"}
    /\ Len(submission.stations_df.rows) = 1
    /\ Len(returned[1].rows) = 2
    /\ \E i \in 1..2 : returned[1].rows[i]["station_name"] = NaN

\* save_processed_data has returned to a caller that handed it a DataFrame
\* with rows and a path.
Saved ==
    /\ engine = "save"
    /\ returned # <<>>
    /\ submission.df # None /\ ~IsEmpty(submission.df)
    /\ submission.output_file # ""

\* The file system lets the directory of the path be made and the file be
\* written.
Writable == submission.fs.mkdir_succeeds /\ submission.fs.write_succeeds

FileExists(path) == \E i \in 1..Len(written_files) : written_files[i].path = path

\* C25: save_processed_data with a valid DataFrame returns True and leaves
\* the output file when the path is writable, and returns False when it is
\* not.
C25_SaveReturnsSuccess ==
    Saved =>
        /\ Writable => (returned[1] = PyBool(TRUE) /\ FileExists(submission.output_file))
        /\ ~Writable => returned[1] = PyBool(FALSE)

\* The methods the engine instance went through, over all calls, in order.
History == Concat([i \in 1..Len(events) |-> events[i].trace])

\* Position i of the history has step a, and step b comes before it with no
\* other start of calculate_grade in between.
ComesAfter(i, b) ==
    \E j \in 1..(i - 1) :
        /\ History[j] = b
        /\ \A k \in (j + 1)..(i - 1) : History[k] # "calculate_grade"

\* C26: in every run of calculate_grade the tests have been run before the
\* breakdown is populated, the breakdown and the recommendations are
\* populated before the report is validated, and the report is validated
\* before it is returned; and whenever set_environment_variables,
\* save_grade_report, display_grade_summary or get_exit_code reads
\* self.grade_report, the report has been populated and then validated.
C26_StagesInOrder ==
    (engine \in CallerEngines \cup {"pandas"}) =>
        \A i \in 1..Len(History) :
            /\ History[i] = "_populate_detailed_breakdown" =>
                  \E j \in 1..(i - 1) : History[j] = "run_tests"
            /\ History[i] = "_validate_report_structure" =>
                  /\ ComesAfter(i, "_populate_detailed_breakdown")
                  /\ ComesAfter(i, "_generate_improvement_recommendations")
            /\ History[i] = "return" => ComesAfter(i, "_validate_report_structure")
            /\ History[i] = "read" =>
                  \E j \in 1..(i - 1) :
                      /\ History[j] = "_validate_report_structure"
                      /\ \A k \in (j + 1)..(i - 1) :
                            History[k] # "_populate_detailed_breakdown"

\* How often run_tests has been executed on the engine instance.
Launches == Len(SelectSeq(History, LAMBDA step : step = "run_tests"))

\* C27: over the calls of calculate_grade, set_environment_variables,
\* save_grade_report, display_grade_summary and get_exit_code made on one
\* engine instance, run_tests is executed at most once.
C27_TestsRunAtMostOnce ==
    (engine \in {"base", "pandas"}) => Launches <= 1

\* The scanned files that hold the header of the function, in scan order.
DefiningFiles ==
    SelectSeq(submission.files,
              LAMBDA file : InContent(DefHeader(submission.function_name), file.content))

\* C28: when more than one scanned file defines the function,
\* detect_function_implementation returns what the first of them in scan
\* order gives: False when that definition is a stub, whatever a later file
\* holds.
C28_FirstDefinitionDecides ==
    (/\ engine = "detect"
     /\ pc = "detect_function_implementation"
     /\ Len(DefiningFiles) > 1) =>
        returned[1] = DetectedInFile(DefiningFiles[1].content, submission.function_name)

\* C29: the letter_grade of a report is the letter the thresholds give for
\* the report's own, rounded, percentage field.
C29_LetterMatchesReportedPercentage ==
    Graded =>
        InBand(grade_report["letter_grade"],
               [num |-> grade_report["percentage"], den |-> 10])

\* The sum of points_earned over the entries of detailed_breakdown.
BreakdownSum ==
    SumSeq([i \in 1..Len(grade_report["detailed_breakdown"]) |->
               grade_report["detailed_breakdown"][i].v["points_earned"]])

\* C30: in a report of calculate_grade, whatever map run_tests returned,
\* total_points is the sum of points_earned over the entries of
\* detailed_breakdown, and components_passing and components_implemented are
\* at most total_components, so that pass_rate and implementation_rate are
\* between 0 and 100.
C30_ReportTotalsAgree ==
    (engine \in CallerEngines \cup {"pandas"} /\ Truthy(grade_report)) =>
        LET summary == grade_report["performance_summary"]
        IN  /\ grade_report["total_points"] = BreakdownSum
            /\ summary["components_passing"] <= summary["total_components"]
            /\ summary["components_implemented"] <= summary["total_components"]
            /\ 0 <= summary["pass_rate"] /\ summary["pass_rate"] <= Tenths(100, 0)
            /\ 0 <= summary["implementation_rate"]
            /\ summary["implementation_rate"] <= Tenths(100, 0)

====
